---------------------------- MODULE Spec2Model ----------------------------
(***************************************************************************)
(* A model of simple-rdp: the RDPClient connection sequence (client.py)    *)
(* and the Display surface and video pipeline (display.py).                *)
(*                                                                         *)
(* asyncio runs every coroutine on one thread: the code between two        *)
(* suspension points (an await that really waits) is one atomic step, and  *)
(* each action below is one such stretch of a handler.                     *)
(***************************************************************************)
EXTENDS Integers, Sequences, FiniteSets, TLC

\* A reference that holds no object: an attribute never assigned, and None.
Unset == 0
NoObject == -1
NoExc == [type |-> "None", msg |-> ""]

(***************************************************************************)
(* Bounds of the model.                                                    *)
(***************************************************************************)
MaxSockets == 2      \* TCP connections opened by one client
MaxChunks == 102     \* chunks the stdout reader produces (queue specification)
MaxRunChunks == 2    \* chunks the stdout reader produces (encoder specification)
MaxProcs == 2        \* encoder processes spawned
MaxHandles == 2      \* recording files opened
MaxVideoBufferChunks == 2   \* max_video_buffer_mb, in whole chunks
Width == 2           \* Display(width=...)
Height == 3          \* Display(height=...)
MaxCalls == 3        \* bitmaps pasted, update_pointer calls and frames added
MaxTicks == 1        \* clock ticks that pass
TicksPerFrame == 1   \* clock ticks in 1.0 / fps
MaxFrames == 2       \* frames added beside a running encoder
fps == 1             \* Display(fps=...)
MaxOverfill == 1     \* frames added beyond max_raw_frames
MaxBufferChunks == 5 \* chunks the stdout reader produces (buffer specification)
MaxInputCalls == 2   \* mouse_click and send_key calls made
MaxLength == 65536   \* the largest length handed to a length encoder
MaxSessions == 2     \* sessions the MCP server's connect creates
MaxEncoders == 2     \* encoders one session's recordings start
MaxItems == 4        \* events the wrapped ADK runner yields
MaxRuns == 3         \* times the wrapped ADK runner is started
max_token_length == 2   \* AdkExternalCompaction(max_token_length=...)

(***************************************************************************)
(* Constants of the program.                                               *)
(***************************************************************************)
QueueMaxSize == 100  \* Queue(maxsize=100)
CHUNK_SIZE == 65536

\* int(max_video_buffer_mb * 1024 * 1024) for the configured size.
max_video_buffer_bytes == MaxVideoBufferChunks * CHUNK_SIZE

\* 1.0 / fps, in clock ticks.
pointer_update_interval == TicksPerFrame

DEFAULT_RAW_BUFFER_SECONDS == 10

\* Display(max_raw_frames=None), the default: _max_raw_frames falls back to
\* fps * 10, while the deque is built from the argument itself.
max_raw_frames == fps * DEFAULT_RAW_BUFFER_SECONDS
raw_frames_maxlen == NoObject

(***************************************************************************)
(* Sequence helpers.                                                       *)
(***************************************************************************)
\* The bytes in the order they arrived.
Unreversed(s) == s

\* Python's s[::-1].
Reverse(s) == [i \in 1..Len(s) |-> s[Len(s) + 1 - i]]

\* Python's s[a:b] for 0 <= a <= b, clipped to the length of s.
Slice(s, a, b) ==
  LET hi == IF b < Len(s) THEN b ELSE Len(s)
  IN  IF a >= hi THEN << >> ELSE SubSeq(s, a + 1, hi)

Range(s) == {s[i] : i \in 1..Len(s)}

VARIABLES
  \* ---- RDPClient (client.py)
  connected,              \* _connected
  tcp_writer,             \* _tcp_writer: Unset, or the index in socks of its socket
  tcp_reader,             \* _tcp_reader: Unset, NoObject (None), or its socket
  connection_properties,  \* the connection_properties dict
  socks,                  \* every socket opened so far: "open", "tls" or "closed"
  cpc,                    \* where the caller of connect / disconnect stands
  via,                    \* how connect was called: "direct" or "context"
  exc,                    \* the exception the last call raised, or NoExc
  log,                    \* the logger.info lines of the connection sequence
  protocol_writes,        \* assignments to connection_properties["protocol"]
                          \* made by the current connect call
  \* ---- RDPClient, input (mouse_click, send_key)
  input_lock,             \* the write-serializing lock: its holder, or "free"
  ipc,                    \* where each input producer stands
  todo,                   \* the events each producer's current call has yet to send
  npdu,                   \* input PDUs each producer has begun to write
  wire,                   \* the 16-bit fields written to the socket, in order,
                          \* each tagged with the PDU it belongs to
  input_calls             \* the input calls made so far

VARIABLES
  \* ---- length codecs (mcs.py, credssp.py)
  codec                   \* the codec calls made: the coding, what the encoder
                          \* returned or raised for each length, and what the
                          \* decoder made of each encoding

VARIABLES
  \* ---- MCP server (simple_rdp_mcp/server.py)
  sessions,               \* every RDPSession created: [connected,
                          \* record_session, recording, frame_task, display,
                          \* encoders]
  session,                \* _session: NoObject (None) or the index in sessions
  mcp_exc,                \* what the last call on the server raised, or NoExc
  mcp_last                \* the last call made and the _session it found

VARIABLES
  \* ---- AdkExternalCompaction (agentic_computer_use/google_adk.py)
  adk                     \* one run_async call: where it stands, the runner
                          \* runs started, the compactions made, the tokens of
                          \* the session's events since the last compaction,
                          \* whether should_compact said yes in this run, the
                          \* events yielded and what the call raised

VARIABLES
  \* ---- browser server (examples/browser/server.py)
  video_streaming_clients,  \* video_streaming_clients
  hpc,                    \* where each video handler stands
  rdp_connected           \* rdp_client is set and is_connected

VARIABLES
  \* ---- Display, video pipeline (display.py)
  streaming,              \* _streaming
  shutting_down,          \* _shutting_down
  recording_to_file,      \* _recording_to_file
  recording_path,         \* _recording_path: NoObject (None) or a path
  recording_file,         \* _recording_file: NoObject, or the index in handles
  handles,                \* every file opened: [path, open, content]
  ffmpeg_process,         \* _ffmpeg_process: NoObject, or the index in procs
  procs,                  \* every process spawned: [state, stdin_open, nread]
  reader_task,            \* _reader_task: NoObject, or the index in tasks
  stderr_task,            \* _stderr_task: NoObject, or the index in tasks
  tasks,                  \* every task created: [kind, state, cancel, src]
  chunk_sequence,         \* _chunk_sequence
  video_chunks,           \* _video_chunks
  video_buffer_size,      \* _video_buffer_size
  video_queue,            \* _video_queue
  stats,                  \* _stats
  recording_start_time,   \* _recording_start_time: NoObject or a time
  first_frame_time,       \* _first_frame_time: NoObject or a time
  now,                    \* time.time()
  pc,                     \* where each caller of the streaming API stands
  awaited,                \* the task a suspended stop_streaming awaits
  consumed,               \* the chunks get_next_video_chunk has returned
  last_get                \* the last result of get_next_video_chunk

VARIABLES
  \* ---- Display, surface and pointer (display.py)
  screen_buffer,          \* _screen_buffer: NoImage (None) or the raw surface
  consumer_buffer,        \* _consumer_buffer: NoImage or the composited surface
  consumer_buffer_dirty,  \* _consumer_buffer_dirty
  pointer_x,              \* _pointer_x
  pointer_y,              \* _pointer_y
  pointer_visible,        \* _pointer_visible
  pointer_image,          \* _pointer_image: NoImage or the custom pointer
  pointer_hotspot,        \* _pointer_hotspot
  last_pointer_update,    \* _last_pointer_update
  raw_frames,             \* _raw_frames
  frame_count,            \* _frame_count
  fpc,                    \* where the caller of add_frame stands
  fwrite,                 \* the process whose stdin a suspended add_raw_frame writes
  calls,                  \* add_raw_frame calls so far: made while streaming,
                          \* whose write failed, and that raised
  shot,                   \* the image the last screenshot() returned
  updated,                \* what the last update_pointer() returned
  bitmap_calls,           \* what each apply_bitmap call did: "pasted" or "dropped"
  touched,                \* for each operation on the surface and the pointer:
                          \* "never" called, or called "locked" (touching them
                          \* under _screen_lock) or "unlocked"
  applied                 \* the bitmaps pasted since the surface was initialized

videoVars == << streaming, shutting_down, recording_to_file, recording_path,
                recording_file, handles, ffmpeg_process, procs, reader_task,
                stderr_task, tasks, chunk_sequence, video_chunks,
                video_buffer_size, video_queue, stats, recording_start_time,
                first_frame_time, now, pc, awaited, consumed, last_get >>

inputVars == << input_lock, ipc, todo, npdu, wire, input_calls >>

mcpVars == << sessions, session, mcp_exc, mcp_last >>

browserVars == << video_streaming_clients, hpc, rdp_connected >>

appVars == << codec, mcpVars, adk, browserVars >>

connectionVars == << connected, tcp_writer, tcp_reader, connection_properties,
                    socks, cpc, via, exc, log, protocol_writes >>

clientVars == << connectionVars, inputVars, appVars >>


surfaceVars == << screen_buffer, consumer_buffer, consumer_buffer_dirty,
                  pointer_x, pointer_y, pointer_visible, pointer_image,
                  pointer_hotspot, last_pointer_update, raw_frames, frame_count,
                  fpc, fwrite, calls, shot, updated, bitmap_calls, touched,
                  applied >>

vars == << clientVars, videoVars, surfaceVars >>

notClient == << videoVars, surfaceVars, inputVars, appVars >>
notVideo == << clientVars, surfaceVars >>
notApp == << connectionVars, inputVars, videoVars, surfaceVars >>

(***************************************************************************)
(* RDPClient                                                               *)
(***************************************************************************)
PROTOCOL_HYBRID == << 0, 0, 0, 2 >>
PROTOCOL_SSL == << 0, 0, 0, 1 >>

\* X.224 responses the server may send (TPKT header, X.224 header, then the
\* negotiation structure: type, flags, length, selected protocol).
ConfirmOf(type, p0) ==
  << 3, 0, 0, 19, 14, 208, 0, 0, 18, 52, 0, type, 0, 8, 0, p0, 0, 0, 0 >>

Responses ==
  { ConfirmOf(2, 2), ConfirmOf(2, 1), ConfirmOf(2, 0), ConfirmOf(2, 8),
    ConfirmOf(3, 5), ConfirmOf(0, 2),
    << >>,
    Slice(ConfirmOf(2, 2), 0, 11),
    Slice(ConfirmOf(3, 5), 0, 13),
    Slice(ConfirmOf(2, 2), 0, 17) }

ConnectionError(msg) == [type |-> "ConnectionError", msg |-> msg]
IndexError == [type |-> "IndexError", msg |-> "index out of range"]
AttributeError == [type |-> "AttributeError", msg |-> "_tcp_writer"]

\* A parser that takes the selected protocol from a response of any type.
parse_x224_any_type(data) ==
  IF Len(data) < 12
    THEN [raised |-> ConnectionError("Invalid X.224 response from server.")]
    ELSE [protocol |-> Reverse(Slice(data, 15, 19))]

\* _parse_x224_response: the selected protocol, or the exception raised.
\* data[i] of the source is data[i + 1] here.
parse_x224_response(data) ==
  IF Len(data) < 11 THEN [raised |-> ConnectionError("Invalid X.224 response from server.")]
  ELSE IF Len(data) < 12 THEN [raised |-> IndexError]
  ELSE LET type_code == data[12] IN
    IF type_code \notin {2, 3}
      THEN [raised |-> ConnectionError("Unexpected X.224 response type from server.")]
    ELSE IF type_code = 2
      THEN [protocol |-> Reverse(Slice(data, 15, 19))]
    ELSE IF Len(data) < 15 THEN [raised |-> IndexError]
    ELSE [raised |-> ConnectionError("RDP negotiation failed as per server response.")]

Raised(r) == "raised" \in DOMAIN r

\* connection_properties.get("protocol"); << >> stands for None, which equals
\* neither protocol value.
Protocol ==
  IF "protocol" \in DOMAIN connection_properties
    THEN connection_properties.protocol ELSE << >>

ClientInit ==
  /\ connected = FALSE
  /\ tcp_writer = Unset
  /\ tcp_reader = Unset
  /\ connection_properties = << >>
  /\ socks = << >>
  /\ cpc = "idle"
  /\ via = "direct"
  /\ exc = NoExc
  /\ log = << >>
  /\ protocol_writes = 0

CallerAtRest == cpc \in {"idle", "connect_returned", "connect_raised",
                         "disconnect_returned", "disconnect_raised"}

\* connect() up to the await of open_connection in _start_tcp_connection.
ConnectCall(how) ==
  /\ CallerAtRest
  /\ how = "context" => cpc = "idle"
  /\ via = "context" => cpc = "idle"
  /\ Len(socks) < MaxSockets
  /\ cpc' = "tcp"
  /\ via' = how
  /\ exc' = NoExc
  /\ log' = << >>
  /\ protocol_writes' = 0
  /\ UNCHANGED << connected, tcp_writer, tcp_reader, connection_properties, socks >>
  /\ UNCHANGED notClient

\* open_connection returned or raised; on success _start_x224 writes the
\* request and awaits drain().
TcpConnectionDone(ok) ==
  /\ cpc = "tcp"
  /\ IF ok
       THEN /\ connected' = TRUE
            /\ socks' = Append(socks, "open")
            /\ tcp_reader' = Len(socks) + 1
            /\ tcp_writer' = Len(socks) + 1
            /\ log' = Append(log, "Connected to RDP server")
            /\ cpc' = "x224_drain"
            /\ exc' = exc
       ELSE /\ exc' = ConnectionError("Could not connect")
            /\ cpc' = "connect_raised"
            /\ UNCHANGED << connected, socks, tcp_reader, tcp_writer, log >>
  /\ UNCHANGED << connection_properties, via, protocol_writes >>
  /\ UNCHANGED notClient

\* drain() returned or raised; on success the response is awaited.
X224Drained(ok) ==
  /\ cpc = "x224_drain"
  /\ IF ok
       THEN /\ log' = Append(log, "Sent X.224 packet to RDP server.")
            /\ cpc' = "x224_read"
            /\ exc' = exc
       ELSE /\ exc' = ConnectionError("Connection lost")
            /\ cpc' = "connect_raised"
            /\ log' = log
  /\ UNCHANGED << connected, tcp_writer, tcp_reader, connection_properties, socks, via,
                  protocol_writes >>
  /\ UNCHANGED notClient

\* A connect that would upgrade to TLS for CredSSP only.
NeedsTlsHybridOnly(p) == p = PROTOCOL_HYBRID

\* connect's test for the TLS upgrade: the protocol is TLS or CredSSP.
NeedsTls(p) == p \in {PROTOCOL_HYBRID, PROTOCOL_SSL}

\* read(1024) returned `response`: _start_x224 parses it and records the
\* protocol, then connect goes on to the TLS upgrade (up to the await of
\* start_tls) or raises.
X224Response(response) ==
  /\ cpc = "x224_read"
  /\ LET r == parse_x224_response(response) IN
     IF Raised(r)
       THEN /\ exc' = r.raised
            /\ cpc' = "connect_raised"
            /\ UNCHANGED << connection_properties, log, protocol_writes >>
       ELSE /\ connection_properties' = [protocol |-> r.protocol]
            /\ protocol_writes' = protocol_writes + 1
            /\ IF NeedsTls(r.protocol)
                 THEN /\ log' = log \o << "X.224 negotiation completed",
                                          "Starting TLS Handshake..." >>
                      /\ cpc' = "tls"
                      /\ exc' = exc
                 ELSE /\ log' = Append(log, "X.224 negotiation completed")
                      /\ exc' = ConnectionError("Unsupported RDP protocol selected by server.")
                      /\ cpc' = "connect_raised"
  /\ UNCHANGED << connected, tcp_writer, tcp_reader, socks, via >>
  /\ UNCHANGED notClient

\* start_tls returned or raised; on success connect starts NLA (which only
\* logs) and returns, or raises when the protocol is not CredSSP.
TlsDone(ok) ==
  /\ cpc = "tls"
  /\ IF ok
       THEN /\ socks' = [socks EXCEPT ![tcp_writer] = "tls"]
            /\ IF Protocol = PROTOCOL_HYBRID
                 THEN /\ log' = log \o << "TLS Handshake successful.",
                                          "Starting NLA authentication..." >>
                      /\ cpc' = "connect_returned"
                      /\ exc' = exc
                 ELSE /\ log' = Append(log, "TLS Handshake successful.")
                      /\ exc' = ConnectionError("Unsupported RDP protocol selected by server.")
                      /\ cpc' = "connect_raised"
       ELSE /\ exc' = ConnectionError("TLS Handshake failed.")
            /\ cpc' = "connect_raised"
            /\ UNCHANGED << socks, log >>
  /\ UNCHANGED << connected, tcp_writer, tcp_reader, connection_properties, via,
                  protocol_writes >>
  /\ UNCHANGED notClient

\* disconnect() up to the await of wait_closed(). Through `async with` it is
\* __aexit__ that calls it, which runs only when __aenter__ (connect) returned.
DisconnectCall ==
  /\ CallerAtRest
  /\ via = "context" => cpc = "connect_returned"
  /\ IF tcp_writer = Unset
       THEN /\ exc' = AttributeError
            /\ cpc' = "disconnect_raised"
            /\ socks' = socks
       ELSE /\ socks' = [socks EXCEPT ![tcp_writer] = "closed"]
            /\ cpc' = "wait_closed"
            /\ exc' = NoExc
  /\ UNCHANGED << connected, tcp_writer, tcp_reader, connection_properties, via, log,
                  protocol_writes >>
  /\ UNCHANGED notClient

\* wait_closed() returned or raised the transport's error.
WaitClosedDone(ok) ==
  /\ cpc = "wait_closed"
  /\ IF ok
       THEN /\ tcp_reader' = NoObject
            /\ connected' = FALSE
            /\ cpc' = "disconnect_returned"
            /\ exc' = exc
       ELSE /\ exc' = ConnectionError("Connection lost")
            /\ cpc' = "disconnect_raised"
            /\ UNCHANGED << tcp_reader, connected >>
  /\ UNCHANGED << tcp_writer, connection_properties, socks, via, log, protocol_writes >>
  /\ UNCHANGED notClient

ClientNext ==
  \/ \E how \in {"direct", "context"} : ConnectCall(how)
  \/ \E ok \in BOOLEAN : TcpConnectionDone(ok)
  \/ \E ok \in BOOLEAN : X224Drained(ok)
  \/ \E response \in Responses : X224Response(response)
  \/ \E ok \in BOOLEAN : TlsDone(ok)
  \/ DisconnectCall
  \/ \E ok \in BOOLEAN : WaitClosedDone(ok)

(***************************************************************************)
(* RDPClient: input events                                                 *)
(***************************************************************************)
INPUT_EVENT_SCANCODE == 4
INPUT_EVENT_MOUSE == 32769
PTRFLAGS_MOVE == 2048
PTRFLAGS_DOWN == 32768
PTRFLAGS_BUTTON1 == 4096
KBDFLAGS_RELEASE == 32768

\* The tasks that call the input API.
Producers == {"p", "q"}

\* button 1, 2, 3 (left, right, middle) as the pointer flag of the button.
ButtonFlag(button) == PTRFLAGS_BUTTON1 * (IF button = 3 THEN 4 ELSE button)

MouseEvent(flags, x, y) == << INPUT_EVENT_MOUSE, flags, x, y >>

\* A click that presses before it has moved.
ClickEventsDownFirst(x, y, button) ==
  << MouseEvent(ButtonFlag(button) + PTRFLAGS_DOWN, x, y),
     MouseEvent(PTRFLAGS_MOVE, x, y),
     MouseEvent(ButtonFlag(button), x, y) >>

\* A click: move-to, button-down, button-up.
ClickEvents(x, y, button) ==
  << MouseEvent(PTRFLAGS_MOVE, x, y),
     MouseEvent(ButtonFlag(button) + PTRFLAGS_DOWN, x, y),
     MouseEvent(ButtonFlag(button), x, y) >>

\* The events of one input call: a click or two clicks in a row, or the
\* press and the release of a key.
EventsOf(call) ==
  IF call.op = "mouse_click"
    THEN IF call.double_click
           THEN ClickEvents(call.x, call.y, call.button) \o
                ClickEvents(call.x, call.y, call.button)
           ELSE ClickEvents(call.x, call.y, call.button)
    ELSE << << INPUT_EVENT_SCANCODE, 0, call.x, 0 >>,
            << INPUT_EVENT_SCANCODE, KBDFLAGS_RELEASE, call.x, 0 >> >>

InputInit ==
  /\ input_lock = "free"
  /\ ipc = [p \in Producers |-> "idle"]
  /\ todo = [p \in Producers |-> << >>]
  /\ npdu = [p \in Producers |-> 0]
  /\ wire = << >>
  /\ input_calls = << >>

\* mouse_click(x, y, button, double_click) or send_key(scancode) is called.
InputCall(p, call) ==
  /\ ipc[p] = "idle"
  /\ ipc' = [ipc EXCEPT ![p] = "pending"]
  /\ todo' = [todo EXCEPT ![p] = EventsOf(call)]
  /\ input_calls' = Append(input_calls, [call EXCEPT !.by = p, !.first = npdu[p] + 1])
  /\ UNCHANGED << input_lock, npdu, wire >>
  /\ UNCHANGED << connectionVars, videoVars, surfaceVars, appVars >>

\* A writer that does not wait for the lock.
WriterAlwaysFree(p) == TRUE

\* The write-serializing lock can be taken.
WriterFree(p) == input_lock = "free"

Fields(p, n, event, from, to) ==
  [i \in 1..(to - from + 1) |-> [by |-> p, pdu |-> n, word |-> event[from + i - 1]]]

\* The producer takes the lock and the socket accepts the first part of the
\* PDU of its next event; the rest waits for the socket.
WriteBegin(p) ==
  /\ ipc[p] = "pending"
  /\ WriterFree(p)
  /\ input_lock' = p
  /\ npdu' = [npdu EXCEPT ![p] = @ + 1]
  /\ wire' = wire \o Fields(p, npdu[p] + 1, Head(todo[p]), 1, 2)
  /\ ipc' = [ipc EXCEPT ![p] = "writing"]
  /\ UNCHANGED << todo, input_calls >>
  /\ UNCHANGED << connectionVars, videoVars, surfaceVars, appVars >>

\* The rest of the PDU is written and the lock released.
WriteEnd(p) ==
  /\ ipc[p] = "writing"
  /\ wire' = wire \o Fields(p, npdu[p], Head(todo[p]), 3, 4)
  /\ input_lock' = "free"
  /\ todo' = [todo EXCEPT ![p] = Tail(@)]
  /\ ipc' = [ipc EXCEPT ![p] = IF Tail(todo[p]) = << >> THEN "idle" ELSE "pending"]
  /\ UNCHANGED << npdu, input_calls >>
  /\ UNCHANGED << connectionVars, videoVars, surfaceVars, appVars >>

(***************************************************************************)
(* Length codecs: mcs.py (BER, PER) and credssp.py (ASN.1 DER)             *)
(***************************************************************************)
ValueError(msg) == [type |-> "ValueError", msg |-> msg]

\* What an encoder hands back: the bytes it returned, or what it raised.
Returns(bytes) == [exc |-> NoExc, bytes |-> bytes]
Raises(e) == [exc |-> e, bytes |-> << >>]

\* A BER encoder that still uses the short form at 128.
ber_write_length_short128(length) ==
  IF length <= 128 THEN Returns(<< length >>)
  ELSE IF length < 256 THEN Returns(<< 129, length >>)
  ELSE IF length < 65536
       THEN Returns(<< 130, (length \div 256) % 256, length % 256 >>)
  ELSE Raises(ValueError("Length too large"))

\* mcs._ber_write_length(length).
ber_write_length(length) ==
  IF length < 128 THEN Returns(<< length >>)
  ELSE IF length < 256 THEN Returns(<< 129, length >>)
  ELSE IF length < 65536
       THEN Returns(<< 130, (length \div 256) % 256, length % 256 >>)
  ELSE Raises(ValueError("Length too large"))

\* credssp._encode_asn1_length(length), for the lengths up to 65535.
encode_asn1_length(length) ==
  IF length < 128 THEN Returns(<< length >>)
  ELSE IF length < 256 THEN Returns(<< 129, length >>)
  ELSE Returns(<< 130, (length \div 256) % 256, length % 256 >>)

\* mcs._per_write_length(length): one byte below 0x80, two bytes with the
\* top bit set below 0x4000.
per_write_length(length) ==
  IF length < 128 THEN Returns(<< length >>)
  ELSE IF length < 16384
       THEN Returns(<< 128 + (length \div 256), length % 256 >>)
  ELSE Raises(ValueError("Length too large for PER"))

\* The bytes data[from .. from + n - 1] (1-based) read most significant first.
RECURSIVE BytesToInt(_, _, _)
BytesToInt(data, from, n) ==
  IF n = 0 THEN 0
  ELSE 256 * BytesToInt(data, from, n - 1) + data[from + n - 1]

\* A decoder that keeps only the last length byte.
decode_asn1_length_low_byte(data, offset) ==
  LET first == data[offset + 1]
      num_bytes == first % 128
  IN  IF first < 128 THEN << first, 1 >>
      ELSE << data[offset + 1 + num_bytes], 1 + num_bytes >>

\* credssp._decode_asn1_length(data, offset): (length, bytes consumed).
decode_asn1_length(data, offset) ==
  LET first == data[offset + 1]
      num_bytes == first % 128
  IN  IF first < 128 THEN << first, 1 >>
      ELSE << BytesToInt(data, offset + 2, num_bytes), 1 + num_bytes >>

\* The PER length determinant read back: (length, bytes consumed).
per_read_length(data, offset) ==
  LET first == data[offset + 1]
  IN  IF first < 128 THEN << first, 1 >>
      ELSE << (first % 128) * 256 + data[offset + 2], 2 >>

Codings == {"ber", "asn1", "per"}

Encode(coding, length) ==
  IF coding = "ber" THEN ber_write_length(length)
  ELSE IF coding = "asn1" THEN encode_asn1_length(length)
  ELSE per_write_length(length)

Decode(coding, data, offset) ==
  IF coding = "per" THEN per_read_length(data, offset)
  ELSE decode_asn1_length(data, offset)

\* The bytes that follow an encoded length in a message.
Payload == << 0, 255 >>

\* The lengths a coding is asked to encode whose high byte is hi.
Block(coding, hi) ==
  {length \in (256 * hi)..(256 * hi + 255) :
     /\ length <= MaxLength
     /\ coding = "asn1" => length < 65536}

CodecInit ==
  codec = [stage |-> "none", coding |-> "none", out |-> << >>, dec |-> << >>]

\* Each length of a block is encoded.
EncodeLengths(coding, hi) ==
  /\ codec.stage = "none"
  /\ Block(coding, hi) # {}
  /\ codec' = [stage |-> "encoded", coding |-> coding,
               out |-> [length \in Block(coding, hi) |-> Encode(coding, length)],
               dec |-> << >>]
  /\ UNCHANGED << notApp, mcpVars, adk, browserVars >>

\* Each encoded length is read back from the head of a message.
DecodeLengths ==
  /\ codec.stage = "encoded"
  /\ codec' = [codec EXCEPT
       !.stage = "decoded",
       !.dec = [length \in {l \in DOMAIN codec.out : codec.out[l].exc = NoExc} |->
                  Decode(codec.coding, codec.out[length].bytes \o Payload, 0)]]
  /\ UNCHANGED << notApp, mcpVars, adk, browserVars >>

(***************************************************************************)
(* MCP server: the global session (simple_rdp_mcp/server.py)               *)
(***************************************************************************)
RuntimeError == [type |-> "RuntimeError", msg |-> "Not connected to RDP server."]
TypeError == [type |-> "TypeError", msg |-> "unexpected keyword argument 'record_to'"]
SpawnError == [type |-> "FileNotFoundError", msg |-> "ffmpeg"]

\* record_session=None: no path, which tests false as the empty path does.
NoPath == ""

\* RDPSession(client=client, config=config) on a connected client;
\* encoders counts the encoder processes the session's displays have
\* started and not stopped.
RDPSession(record_session) ==
  [connected |-> TRUE, record_session |-> record_session, recording |-> FALSE,
   frame_task |-> "none", display |-> FALSE, encoders |-> 0]

\* The outcome of a session method: the session afterwards and what it raised.
Outcome(s, e) == [s |-> s, exc |-> e]

\* RDPSession.start_recording(); spawned tells whether the display's
\* start_streaming started its encoder.
session_start_recording(s, spawned) ==
  IF s.recording THEN Outcome(s, NoExc)
  ELSE IF spawned
  THEN Outcome([s EXCEPT !.display = TRUE, !.encoders = @ + 1,
                         !.recording = TRUE, !.frame_task = "running"], NoExc)
  ELSE Outcome([s EXCEPT !.display = TRUE], SpawnError)

\* RDPSession.stop_recording(save_path): Display.stop_streaming takes no
\* record_to argument, so the call it makes on the display raises before
\* the display stops anything.
session_stop_recording(s) ==
  IF ~s.recording THEN Outcome(s, NoExc)
  ELSE LET t == [s EXCEPT !.recording = FALSE,
                          !.frame_task = IF @ = "none" THEN @ ELSE "cancelled"]
       IN  IF t.display THEN Outcome(t, TypeError) ELSE Outcome(t, NoExc)

McpInit ==
  /\ sessions = << >>
  /\ session = NoObject
  /\ mcp_exc = NoExc
  /\ mcp_last = << "none", NoObject >>

\* get_session() finds a connected session.
HasSession == session # NoObject /\ sessions[session].connected

\* connect(..., record_session): client.connect() succeeds or raises.
McpConnect(record_session, ok, spawned) ==
  /\ Len(sessions) < MaxSessions
  /\ LET closed == IF HasSession
                   THEN [sessions EXCEPT ![session].connected = FALSE]
                   ELSE sessions
         new == IF record_session # NoPath
                THEN session_start_recording(RDPSession(record_session), spawned)
                ELSE Outcome(RDPSession(record_session), NoExc)
     IN  IF ok
         THEN /\ sessions' = Append(closed, new.s)
              /\ session' = Len(sessions) + 1
              /\ mcp_exc' = new.exc
         ELSE /\ sessions' = closed
              /\ mcp_exc' = ConnectionError("connect")
              /\ UNCHANGED session
  /\ mcp_last' = << "connect", session >>
  /\ UNCHANGED << notApp, codec, adk, browserVars >>

\* disconnect().
McpDisconnect ==
  /\ mcp_last[1] # "disconnect"
  /\ IF session = NoObject
     THEN /\ mcp_exc' = NoExc
          /\ UNCHANGED << sessions, session >>
     ELSE LET s == sessions[session]
              stop == IF s.recording /\ s.record_session # NoPath
                      THEN session_stop_recording(s)
                      ELSE Outcome(s, NoExc)
          IN  IF stop.exc # NoExc
              THEN /\ sessions' = [sessions EXCEPT ![session] = stop.s]
                   /\ mcp_exc' = stop.exc
                   /\ UNCHANGED session
              ELSE /\ sessions' = [sessions EXCEPT
                                     ![session] = [stop.s EXCEPT !.connected = FALSE]]
                   /\ session' = NoObject
                   /\ mcp_exc' = NoExc
  /\ mcp_last' = << "disconnect", session >>
  /\ UNCHANGED << notApp, codec, adk, browserVars >>

\* The start_recording() tool.
McpStartRecording(spawned) ==
  /\ mcp_last[1] # "start_recording"
  /\ IF ~HasSession
     THEN /\ mcp_exc' = RuntimeError
          /\ UNCHANGED sessions
     ELSE LET start == session_start_recording(sessions[session], spawned)
          IN  /\ start.s.encoders <= MaxEncoders
              /\ sessions' = [sessions EXCEPT ![session] = start.s]
              /\ mcp_exc' = start.exc
  /\ mcp_last' = << "start_recording", session >>
  /\ UNCHANGED << session, notApp, codec, adk, browserVars >>

\* The stop_recording(save_path) tool.
McpStopRecording ==
  /\ mcp_last[1] # "stop_recording"
  /\ IF ~HasSession
     THEN /\ mcp_exc' = RuntimeError
          /\ UNCHANGED sessions
     ELSE LET stop == session_stop_recording(sessions[session])
          IN  /\ sessions' = [sessions EXCEPT ![session] = stop.s]
              /\ mcp_exc' = stop.exc
  /\ mcp_last' = << "stop_recording", session >>
  /\ UNCHANGED << session, notApp, codec, adk, browserVars >>

(***************************************************************************)
(* AdkExternalCompaction.run_async (agentic_computer_use/google_adk.py)    *)
(***************************************************************************)
\* The prompt and candidate tokens an event of the runner may report.
EventTokens == 0..2

AdkInit ==
  adk = [pc |-> "idle", runs |-> 0, compactions |-> 0, tokens |-> 0,
         triggered |-> FALSE, yielded |-> << >>, exc |-> NoExc]

\* should_compact(): the tokens of the events since the last compaction
\* event against max_token_length.
should_compact(tokens) == tokens > max_token_length

\* run_async is iterated for the first time: the runner is started.
AdkRunAsync ==
  /\ adk.pc = "idle"
  /\ adk' = [adk EXCEPT !.pc = "iterating", !.runs = 1]
  /\ UNCHANGED << notApp, codec, mcpVars, browserVars >>

\* The runner yields an event carrying t tokens; run_async yields it on and
\* then asks should_compact, breaking out of the loop when it says yes.
AdkItem(t) ==
  /\ adk.pc = "iterating"
  /\ Len(adk.yielded) < MaxItems
  /\ adk' = [adk EXCEPT
       !.yielded = Append(@, << adk.runs, t >>),
       !.tokens = @ + t,
       !.triggered = should_compact(adk.tokens + t),
       !.pc = IF should_compact(adk.tokens + t) THEN "closing" ELSE "iterating"]
  /\ UNCHANGED << notApp, codec, mcpVars, browserVars >>

\* The runner's generator is exhausted: the `async for` ends.
AdkExhausted ==
  /\ adk.pc = "iterating"
  /\ adk' = [adk EXCEPT !.pc = "closing"]
  /\ UNCHANGED << notApp, codec, mcpVars, browserVars >>

\* What follows the `async for` inside `while True`: the generator is
\* closed, the session fetched (ValueError when it is gone), its events
\* compacted and the compaction event appended; the loop then starts the
\* runner again.
AdkAfterLoop(found) ==
  /\ adk.pc = "closing"
  /\ IF ~found
       THEN adk' = [adk EXCEPT !.pc = "raised",
                               !.exc = ValueError("Session not found for compaction.")]
       ELSE /\ adk.runs < MaxRuns
            /\ adk' = [adk EXCEPT !.pc = "iterating", !.compactions = @ + 1,
                                  !.tokens = 0, !.triggered = FALSE,
                                  !.runs = @ + 1]
  /\ UNCHANGED << notApp, codec, mcpVars, browserVars >>

(***************************************************************************)
(* Display: the video pipeline                                             *)
(***************************************************************************)
Callers == {"a", "b"}

Paths == {"rec.ts"}

NewStats ==
  [frames_received |-> 0, frames_encoded |-> 0, bytes_encoded |-> 0,
   chunks_evicted |-> 0, encoding_errors |-> 0, bitmaps_applied |-> 0,
   pointer_updates |-> 0, pointer_updates_throttled |-> 0, queue_drops |-> 0]

\* Display.__init__, the video pipeline's fields.
VideoInit ==
  /\ streaming = FALSE
  /\ shutting_down = FALSE
  /\ recording_to_file = FALSE
  /\ recording_path = NoObject
  /\ recording_file = NoObject
  /\ handles = << >>
  /\ ffmpeg_process = NoObject
  /\ procs = << >>
  /\ reader_task = NoObject
  /\ stderr_task = NoObject
  /\ tasks = << >>
  /\ chunk_sequence = 0
  /\ video_chunks = << >>
  /\ video_buffer_size = 0
  /\ video_queue = << >>
  /\ stats = NewStats
  /\ recording_start_time = NoObject
  /\ first_frame_time = NoObject
  /\ now = pointer_update_interval
  /\ pc = [t \in Callers |-> "idle"]
  /\ awaited = [t \in Callers |-> Unset]
  /\ consumed = << >>
  /\ last_get = "none"

is_streaming == streaming /\ ffmpeg_process # NoObject
is_file_recording == recording_to_file
is_encoding == ffmpeg_process # NoObject

LiveProcs == {p \in 1..Len(procs) : procs[p].state = "running"}

\* ---- start_streaming
\* A start_streaming without its guard.
EncodingNeverActive == FALSE

\* `if self._streaming or self._recording_to_file:` return.
EncodingAlreadyActive == streaming \/ recording_to_file

\* The body of start_streaming past its guard: Popen spawns the encoder and
\* the two reader tasks are created, or Popen raises.
SpawnEncoder(spawn_ok) ==
  /\ streaming' = TRUE
  /\ recording_start_time' = now
  /\ first_frame_time' = NoObject
  /\ IF spawn_ok
       THEN /\ procs' = Append(procs, [state |-> "running", stdin_open |-> TRUE, nread |-> 0])
            /\ ffmpeg_process' = Len(procs) + 1
            /\ tasks' = tasks \o
                 << [kind |-> "reader", state |-> "created", cancel |-> FALSE, src |-> Unset],
                    [kind |-> "stderr", state |-> "created", cancel |-> FALSE, src |-> Unset] >>
            /\ reader_task' = Len(tasks) + 1
            /\ stderr_task' = Len(tasks) + 2
       ELSE UNCHANGED << procs, ffmpeg_process, tasks, reader_task, stderr_task >>

startVars == << streaming, recording_start_time, first_frame_time, procs,
                ffmpeg_process, tasks, reader_task, stderr_task >>

\* start_streaming, as far as the display goes.
StartStreamingCall(t, spawn_ok) ==
  /\ pc[t] = "idle"
  /\ IF EncodingAlreadyActive
       THEN UNCHANGED startVars
       ELSE /\ Len(procs) < MaxProcs
            /\ SpawnEncoder(spawn_ok)
  /\ UNCHANGED << shutting_down, recording_to_file, recording_path, recording_file,
                  handles, chunk_sequence, video_chunks, video_buffer_size,
                  video_queue, stats, now, pc, awaited, consumed, last_get >>

StartStreaming(t, spawn_ok) ==
  /\ StartStreamingCall(t, spawn_ok)
  /\ UNCHANGED notVideo

\* ---- start_file_recording
StartFileRecording(t, path, spawn_ok, open_ok) ==
  /\ pc[t] = "idle"
  /\ IF recording_to_file
       THEN UNCHANGED << startVars, recording_file, recording_to_file,
                         recording_path, handles >>
       ELSE /\ Len(handles) < MaxHandles
            /\ IF ~streaming
                 THEN Len(procs) < MaxProcs /\ SpawnEncoder(spawn_ok)
                 ELSE UNCHANGED startVars
            /\ IF (streaming \/ spawn_ok) /\ open_ok
                 THEN /\ handles' = Append(handles, [path |-> path, open |-> TRUE, content |-> << >>])
                      /\ recording_file' = Len(handles) + 1
                      /\ recording_to_file' = TRUE
                      /\ recording_path' = path
                 ELSE UNCHANGED << recording_file, recording_to_file,
                                   recording_path, handles >>
  /\ UNCHANGED << shutting_down, chunk_sequence, video_chunks, video_buffer_size,
                  video_queue, stats, now, pc, awaited, consumed, last_get >>
  /\ UNCHANGED notVideo

\* ---- stop_file_recording
CloseFile(h, f) == IF f = NoObject THEN h ELSE [h EXCEPT ![f].open = FALSE]

StopFileRecording(t) ==
  /\ pc[t] = "idle"
  /\ IF ~recording_to_file
       THEN UNCHANGED << recording_to_file, recording_path, recording_file, handles >>
       ELSE /\ recording_to_file' = FALSE
            /\ recording_path' = NoObject
            /\ handles' = CloseFile(handles, recording_file)
            /\ recording_file' = NoObject
  /\ UNCHANGED << startVars, shutting_down, chunk_sequence, video_chunks,
                  video_buffer_size, video_queue, stats, now, pc, awaited,
                  consumed, last_get >>
  /\ UNCHANGED notVideo

\* ---- stop_streaming and _stop_ffmpeg
\* task.cancel(): a request the task sees when it next runs; nothing on a
\* task that is done.
CancelTask(tk, id) == [tk EXCEPT ![id].cancel = (tk[id].state # "done")]

\* _stop_ffmpeg from the assignment `self._stderr_task = None` on, then the
\* end of stop_streaming.
StopAfterStderr(tk, rt) ==
  [tasks |-> tk, reader_task |-> rt, stderr_task |-> NoObject,
   shutting_down |-> FALSE, pc |-> "idle", awaited |-> Unset]

\* _stop_ffmpeg from `if self._stderr_task:` on. Awaiting a task that is
\* done does not suspend.
StopAfterReader(tk, rt, sd) ==
  IF stderr_task # NoObject
    THEN LET tk2 == CancelTask(tk, stderr_task) IN
         IF tk2[stderr_task].state = "done"
           THEN StopAfterStderr(tk2, rt)
           ELSE [tasks |-> tk2, reader_task |-> rt, stderr_task |-> stderr_task,
                 shutting_down |-> sd, pc |-> "stop_await_stderr",
                 awaited |-> stderr_task]
    ELSE StopAfterStderr(tk, rt)

\* _stop_ffmpeg from `if self._reader_task:` on.
StopCancelReader(tk, sd) ==
  IF reader_task # NoObject
    THEN LET tk1 == CancelTask(tk, reader_task) IN
         IF tk1[reader_task].state = "done"
           THEN StopAfterReader(tk1, NoObject, sd)
           ELSE [tasks |-> tk1, reader_task |-> reader_task,
                 stderr_task |-> stderr_task, shutting_down |-> sd,
                 pc |-> "stop_await_reader", awaited |-> reader_task]
    ELSE StopAfterReader(tk, reader_task, sd)

\* A stop that closes stdin and neither waits for the process nor kills it.
StopProcessStdinOnly(pr, p) ==
  IF p = NoObject THEN pr
  ELSE [pr EXCEPT ![p].stdin_open = FALSE]

\* stdin.close(), then wait(timeout=5) and kill() when it times out: either
\* way the process is gone, "exited".
StopProcess(pr, p) ==
  IF p = NoObject THEN pr
  ELSE [pr EXCEPT ![p].stdin_open = FALSE, ![p].state = "exited"]

StopOutcome(r, t) ==
  /\ tasks' = r.tasks
  /\ reader_task' = r.reader_task
  /\ stderr_task' = r.stderr_task
  /\ shutting_down' = r.shutting_down
  /\ pc' = [pc EXCEPT ![t] = r.pc]
  /\ awaited' = [awaited EXCEPT ![t] = r.awaited]

\* stop_streaming up to its first suspension (or its return).
StopStreamingCall(t) ==
  /\ pc[t] = "idle"
  /\ IF ~streaming
       THEN UNCHANGED << streaming, recording_start_time, handles, recording_file,
                         recording_to_file, recording_path, procs, ffmpeg_process,
                         tasks, reader_task, stderr_task, shutting_down, pc, awaited >>
       ELSE /\ streaming' = FALSE
            /\ recording_start_time' = NoObject
            /\ handles' = CloseFile(handles, recording_file)
            /\ recording_file' = NoObject
            /\ recording_to_file' = (IF recording_file # NoObject THEN FALSE ELSE recording_to_file)
            /\ recording_path' = (IF recording_file # NoObject THEN NoObject ELSE recording_path)
            /\ procs' = StopProcess(procs, ffmpeg_process)
            /\ ffmpeg_process' = NoObject
            /\ StopOutcome(StopCancelReader(tasks, TRUE), t)
  /\ UNCHANGED << first_frame_time, chunk_sequence, video_chunks, video_buffer_size,
                  video_queue, stats, now, consumed, last_get >>

StopStreaming(t) ==
  /\ StopStreamingCall(t)
  /\ UNCHANGED notVideo

stopRest == << streaming, recording_to_file, recording_path, recording_file,
               handles, ffmpeg_process, procs, chunk_sequence, video_chunks,
               video_buffer_size, video_queue, stats, recording_start_time,
               first_frame_time, now, consumed, last_get >>

\* `await self._reader_task` returned.
StopReaderAwaited(t) ==
  /\ pc[t] = "stop_await_reader"
  /\ tasks[awaited[t]].state = "done"
  /\ StopOutcome(StopAfterReader(tasks, NoObject, shutting_down), t)
  /\ UNCHANGED stopRest
  /\ UNCHANGED notVideo

\* `await self._stderr_task` returned.
StopStderrAwaited(t) ==
  /\ pc[t] = "stop_await_stderr"
  /\ tasks[awaited[t]].state = "done"
  /\ StopOutcome(StopAfterStderr(tasks, reader_task), t)
  /\ UNCHANGED stopRest
  /\ UNCHANGED notVideo

\* ---- _read_video_output and _read_ffmpeg_stderr
\* `while self._streaming and self._ffmpeg_process:` and, when it holds, the
\* read handed to the executor.
Done(task) == [kind |-> task.kind, state |-> "done", cancel |-> FALSE, src |-> Unset]

LoopAgain(tk, id) ==
  IF streaming /\ ffmpeg_process # NoObject
    THEN [tk EXCEPT ![id].state = "reading", ![id].src = ffmpeg_process]
    ELSE [tk EXCEPT ![id] = Done(@)]

taskRest == << streaming, shutting_down, recording_to_file, recording_path,
               recording_file, handles, ffmpeg_process, procs, reader_task,
               stderr_task, chunk_sequence, video_chunks, video_buffer_size,
               video_queue, stats, recording_start_time, first_frame_time, now,
               pc, awaited, consumed, last_get >>

\* A task runs for the first time.
TaskStart(id) ==
  /\ id \in 1..Len(tasks)
  /\ tasks[id].state = "created" /\ ~tasks[id].cancel
  /\ tasks' = LoopAgain(tasks, id)
  /\ UNCHANGED taskRest
  /\ UNCHANGED notVideo

\* The read returned nothing and the sleep that follows it is over. (The
\* task is suspended throughout and touches nothing in between.)
TaskReadEmpty(id) ==
  /\ id \in 1..Len(tasks)
  /\ tasks[id].state = "reading" /\ ~tasks[id].cancel
  /\ tasks' = LoopAgain(tasks, id)
  /\ UNCHANGED taskRest
  /\ UNCHANGED notVideo

\* CancelledError reaches the task at its await: the loop breaks.
TaskCancelled(id) ==
  /\ id \in 1..Len(tasks)
  /\ tasks[id].state # "done" /\ tasks[id].cancel
  /\ tasks' = [tasks EXCEPT ![id] = Done(@)]
  /\ UNCHANGED taskRest
  /\ UNCHANGED notVideo

\* _read_ffmpeg_stderr read a line: it is logged.
StderrLine(id) ==
  /\ id \in 1..Len(tasks)
  /\ tasks[id].kind = "stderr"
  /\ tasks[id].state = "reading" /\ ~tasks[id].cancel
  /\ tasks' = LoopAgain(tasks, id)
  /\ UNCHANGED taskRest
  /\ UNCHANGED notVideo

\* A queue that counts itself full one chunk late.
QueueFullAbove(q) == Len(q) > QueueMaxSize

\* asyncio.Queue.full()
QueueFull(q) == Len(q) >= QueueMaxSize

\* A put that ignores the bound.
PutNowaitAlways(q, chunk) == Append(q, chunk)

\* A put that makes room by discarding the oldest chunk.
PutNowaitDropOldest(q, chunk) ==
  IF QueueFull(q) THEN Append(Tail(q), chunk) ELSE Append(q, chunk)

\* put_nowait(): QueueFull is raised and the queue is left as it is.
PutNowait(q, chunk) == IF QueueFull(q) THEN q ELSE Append(q, chunk)

\* An eviction that stops after the oldest chunk.
EvictOne(chunks, size, evicted) ==
  IF size > max_video_buffer_bytes /\ chunks # << >>
    THEN [chunks |-> Tail(chunks), size |-> size - Head(chunks).data.len,
          evicted |-> evicted + 1]
    ELSE [chunks |-> chunks, size |-> size, evicted |-> evicted]

\* `while self._video_buffer_size > self._max_video_buffer_bytes and self._video_chunks`
RECURSIVE Evict(_, _, _)
Evict(chunks, size, evicted) ==
  IF size > max_video_buffer_bytes /\ chunks # << >>
    THEN Evict(Tail(chunks), size - Head(chunks).data.len, evicted + 1)
    ELSE [chunks |-> chunks, size |-> size, evicted |-> evicted]

\* A reader that writes to the recording only what the queue will take.
WriteRecordingIfQueued(h, data, write_ok) ==
  IF recording_to_file /\ recording_file # NoObject /\ write_ok /\ ~QueueFull(video_queue)
    THEN [h EXCEPT ![recording_file].content = Append(@, data)]
    ELSE h

\* `if self._recording_to_file and self._recording_file:` write and flush; a
\* write that raises is logged and the chunk is not in the file.
WriteRecording(h, data, write_ok) ==
  IF recording_to_file /\ recording_file # NoObject /\ write_ok
    THEN [h EXCEPT ![recording_file].content = Append(@, data)]
    ELSE h

\* A chunk numbered by its place in its own encoder's output.
NewChunkNumberedInRun(data, sequence) == [data |-> data, sequence |-> data.idx]

\* VideoChunk(data=data, timestamp=..., sequence=self._chunk_sequence)
NewChunk(data, sequence) == [data |-> data, sequence |-> sequence]

\* A counter that leaves a number out.
SkipSequence(n) == n + 2

\* `self._chunk_sequence += 1`
NextSequence(n) == n + 1

\* _read_video_output: the read returned `len` bytes of the encoder's output.
ReaderChunk(id, len, write_ok) ==
  /\ id \in 1..Len(tasks)
  /\ tasks[id].kind = "reader"
  /\ tasks[id].state = "reading" /\ ~tasks[id].cancel
  /\ LET src == tasks[id].src
         data == [src |-> src, idx |-> procs[src].nread, len |-> len]
         chunk == NewChunk(data, chunk_sequence)
         ev == Evict(Append(video_chunks, chunk), video_buffer_size + len, 0)
     IN /\ procs' = [procs EXCEPT ![src].nread = @ + 1]
        /\ handles' = WriteRecording(handles, data, write_ok)
        /\ chunk_sequence' = NextSequence(chunk_sequence)
        /\ video_chunks' = ev.chunks
        /\ video_buffer_size' = ev.size
        /\ video_queue' = PutNowait(video_queue, chunk)
        /\ stats' = [stats EXCEPT
                       !.bytes_encoded = @ + len,
                       !.queue_drops = IF QueueFull(video_queue) THEN @ + 1 ELSE @,
                       !.chunks_evicted = @ + ev.evicted]
  /\ tasks' = LoopAgain(tasks, id)
  /\ UNCHANGED << streaming, shutting_down, recording_to_file, recording_path,
                  recording_file, ffmpeg_process, reader_task, stderr_task,
                  recording_start_time, first_frame_time, now, pc, awaited,
                  consumed, last_get >>
  /\ UNCHANGED notVideo

\* clear_video_chunks()
ClearVideoChunks ==
  /\ video_chunks' = << >>
  /\ video_buffer_size' = 0
  /\ UNCHANGED << streaming, shutting_down, recording_to_file, recording_path,
                  recording_file, handles, ffmpeg_process, procs, reader_task,
                  stderr_task, tasks, chunk_sequence, video_queue, stats,
                  recording_start_time, first_frame_time, now, pc, awaited,
                  consumed, last_get >>
  /\ UNCHANGED notVideo

\* The encoder process ends by itself.
ProcessExits(p) ==
  /\ p \in 1..Len(procs)
  /\ procs[p].state = "running"
  /\ procs' = [procs EXCEPT ![p].state = "exited"]
  /\ UNCHANGED << streaming, shutting_down, recording_to_file, recording_path,
                  recording_file, handles, ffmpeg_process, reader_task,
                  stderr_task, tasks, chunk_sequence, video_chunks,
                  video_buffer_size, video_queue, stats, recording_start_time,
                  first_frame_time, now, pc, awaited, consumed, last_get >>
  /\ UNCHANGED notVideo

\* ---- get_next_video_chunk
getRest == << streaming, shutting_down, recording_to_file, recording_path,
              recording_file, handles, ffmpeg_process, procs, reader_task,
              stderr_task, tasks, chunk_sequence, video_chunks,
              video_buffer_size, stats, recording_start_time, first_frame_time,
              now, pc, awaited >>

\* A queue that hands out its newest item.
QueueGetNewest(q) == [item |-> q[Len(q)], rest |-> SubSeq(q, 1, Len(q) - 1)]

\* asyncio.Queue.get() on a queue that holds an item: the oldest leaves it.
QueueGet(q) == [item |-> Head(q), rest |-> Tail(q)]

\* queue.get() returned a chunk within the timeout: at once, or after
\* waiting for the reader to put one.
GetNextVideoChunk ==
  /\ video_queue # << >>
  /\ consumed' = Append(consumed, QueueGet(video_queue).item.sequence)
  /\ video_queue' = QueueGet(video_queue).rest
  /\ last_get' = "chunk"
  /\ UNCHANGED getRest
  /\ UNCHANGED notVideo

\* wait_for timed out, the queue having stayed empty: TimeoutError is
\* caught and None returned.
GetNextVideoChunkTimeout ==
  /\ video_queue = << >>
  /\ last_get' = "timeout"
  /\ UNCHANGED << consumed, video_queue >>
  /\ UNCHANGED getRest
  /\ UNCHANGED notVideo

(***************************************************************************)
(* Browser server: the video clients (examples/browser/server.py)          *)
(***************************************************************************)
\* The video handlers: "a" is a video_stream_generator of GET /video, "b" a
\* websocket_video of /ws/video. Each calls the display's streaming API as
\* the caller of its own name.
IsWebSocket(h) == h = "b"

BrowserInit ==
  /\ video_streaming_clients = 0
  /\ hpc = [h \in Callers |-> "out"]
  /\ rdp_connected = FALSE

browserRest == << connectionVars, inputVars, codec, mcpVars, adk, surfaceVars >>

\* A stop decided whenever at most one client is counted.
NoClientsLeftButOne(n) == n <= 1

\* `video_streaming_clients <= 0`
NoClientsLeft(n) == n <= 0

\* `if rdp_client and rdp_client.is_connected and not rdp_client.is_streaming:`
\* start_streaming, which does not suspend.
StartIfIdle(h, is_up, spawn_ok) ==
  IF is_up /\ ~is_streaming
    THEN StartStreamingCall(h, spawn_ok)
    ELSE UNCHANGED videoVars

\* That start_streaming raises: Popen failed. No process is set then, so
\* is_streaming is false and the finally block that follows stops nothing.
StartRaises(is_up, spawn_ok) ==
  is_up /\ ~is_streaming /\ ~EncodingAlreadyActive /\ ~spawn_ok

\* The finally block: the counter is decremented, then streaming is stopped
\* when no client is left; stop_streaming may suspend awaiting the reader
\* tasks.
Finally(h) ==
  /\ video_streaming_clients' = video_streaming_clients - 1
  /\ IF NoClientsLeft(video_streaming_clients - 1) /\ rdp_connected /\ is_streaming
       THEN StopStreamingCall(h)
       ELSE UNCHANGED videoVars
  /\ hpc' = [hpc EXCEPT ![h] = "cleanup"]
  /\ UNCHANGED rdp_connected

\* /ws/video: the handler is entered and awaits websocket.accept().
WebSocketOpen(h) ==
  /\ IsWebSocket(h)
  /\ hpc[h] = "out"
  /\ hpc' = [hpc EXCEPT ![h] = "accepting"]
  /\ UNCHANGED << video_streaming_clients, rdp_connected, videoVars, browserRest >>

\* accept() raises, outside the try block: the handler is over.
WebSocketAcceptFails(h) ==
  /\ hpc[h] = "accepting"
  /\ hpc' = [hpc EXCEPT ![h] = "out"]
  /\ UNCHANGED << video_streaming_clients, rdp_connected, videoVars, browserRest >>

\* The generator is first iterated, or accept() returned: the client is
\* counted; with the RDP connection up streaming is started if it is not
\* active, otherwise connect_rdp() is awaited. When start_streaming raises
\* the finally block runs at once.
VideoClientEnters(h, spawn_ok) ==
  /\ hpc[h] = (IF IsWebSocket(h) THEN "accepting" ELSE "out")
  /\ StartIfIdle(h, rdp_connected, spawn_ok)
  /\ IF StartRaises(rdp_connected, spawn_ok)
       THEN /\ video_streaming_clients' = (video_streaming_clients + 1) - 1
            /\ hpc' = [hpc EXCEPT ![h] = "cleanup"]
       ELSE /\ video_streaming_clients' = video_streaming_clients + 1
            /\ hpc' = [hpc EXCEPT ![h] = IF rdp_connected THEN "streaming"
                                                          ELSE "connecting"]
  /\ UNCHANGED << rdp_connected, browserRest >>

\* connect_rdp() returned: on success streaming is started if it is not
\* active; on failure the handler returns through its finally block.
ConnectRdpDone(h, success, spawn_ok) ==
  /\ hpc[h] = "connecting"
  /\ IF success
       THEN /\ rdp_connected' = TRUE
            /\ StartIfIdle(h, TRUE, spawn_ok)
            /\ IF StartRaises(TRUE, spawn_ok)
                 THEN /\ video_streaming_clients' = video_streaming_clients - 1
                      /\ hpc' = [hpc EXCEPT ![h] = "cleanup"]
                 ELSE /\ UNCHANGED video_streaming_clients
                      /\ hpc' = [hpc EXCEPT ![h] = "streaming"]
       ELSE Finally(h)
  /\ UNCHANGED browserRest

\* In the streaming loop: `if not client.is_streaming:` start_streaming.
VideoLoopRestart(h, spawn_ok) ==
  /\ hpc[h] = "streaming"
  /\ ~is_streaming
  /\ StartStreamingCall(h, spawn_ok)
  /\ IF StartRaises(TRUE, spawn_ok)
       THEN /\ video_streaming_clients' = video_streaming_clients - 1
            /\ hpc' = [hpc EXCEPT ![h] = "cleanup"]
       ELSE UNCHANGED << video_streaming_clients, hpc >>
  /\ UNCHANGED << rdp_connected, browserRest >>

\* The client goes away (the request is cancelled, the socket disconnects)
\* while the handler awaits connect_rdp() or is in its loop.
VideoClientLeaves(h) ==
  /\ hpc[h] \in {"connecting", "streaming"}
  /\ Finally(h)
  /\ UNCHANGED browserRest

\* The finally block, and the handler with it, is over.
VideoClientGone(h) ==
  /\ hpc[h] = "cleanup"
  /\ pc[h] = "idle"
  /\ hpc' = [hpc EXCEPT ![h] = "out"]
  /\ UNCHANGED << video_streaming_clients, rdp_connected, videoVars, browserRest >>

(***************************************************************************)
(* Display: the raster surface and the pointer                             *)
(***************************************************************************)
\* An image: [mode, w, h, px], px[<<i, j>>] the pixel of column i, row j.
NoImage == [mode |-> "None"]

Black == << 0, 0, 0 >>

Pixels(w, h) == (0..(w - 1)) \X (0..(h - 1))

\* Image.new("RGB", (w, h), (0, 0, 0))
NewImage(w, h) ==
  [mode |-> "RGB", w |-> w, h |-> h, px |-> [p \in Pixels(w, h) |-> Black]]

\* The bitmap of _create_default_pointer: 0 transparent, 1 black, 2 white.
cursor_data ==
  << << 1, 0, 0, 0, 0, 0, 0, 0, 0, 0, 0, 0, 0, 0, 0, 0 >>,
     << 1, 1, 0, 0, 0, 0, 0, 0, 0, 0, 0, 0, 0, 0, 0, 0 >>,
     << 1, 2, 1, 0, 0, 0, 0, 0, 0, 0, 0, 0, 0, 0, 0, 0 >>,
     << 1, 2, 2, 1, 0, 0, 0, 0, 0, 0, 0, 0, 0, 0, 0, 0 >>,
     << 1, 2, 2, 2, 1, 0, 0, 0, 0, 0, 0, 0, 0, 0, 0, 0 >>,
     << 1, 2, 2, 2, 2, 1, 0, 0, 0, 0, 0, 0, 0, 0, 0, 0 >>,
     << 1, 2, 2, 2, 2, 2, 1, 0, 0, 0, 0, 0, 0, 0, 0, 0 >>,
     << 1, 2, 2, 2, 2, 2, 2, 1, 0, 0, 0, 0, 0, 0, 0, 0 >>,
     << 1, 2, 2, 2, 2, 2, 2, 2, 1, 0, 0, 0, 0, 0, 0, 0 >>,
     << 1, 2, 2, 2, 2, 2, 2, 2, 2, 1, 0, 0, 0, 0, 0, 0 >>,
     << 1, 2, 2, 2, 2, 2, 2, 2, 2, 2, 1, 0, 0, 0, 0, 0 >>,
     << 1, 2, 2, 2, 2, 2, 2, 2, 2, 2, 2, 1, 0, 0, 0, 0 >>,
     << 1, 2, 2, 2, 2, 2, 2, 1, 1, 1, 1, 1, 1, 0, 0, 0 >>,
     << 1, 2, 2, 2, 1, 2, 2, 1, 0, 0, 0, 0, 0, 0, 0, 0 >>,
     << 1, 2, 2, 1, 0, 1, 2, 2, 1, 0, 0, 0, 0, 0, 0, 0 >>,
     << 1, 2, 1, 0, 0, 1, 2, 2, 1, 0, 0, 0, 0, 0, 0, 0 >>,
     << 1, 1, 0, 0, 0, 0, 1, 2, 2, 1, 0, 0, 0, 0, 0, 0 >>,
     << 1, 0, 0, 0, 0, 0, 1, 2, 2, 1, 0, 0, 0, 0, 0, 0 >>,
     << 0, 0, 0, 0, 0, 0, 0, 1, 2, 2, 1, 0, 0, 0, 0, 0 >>,
     << 0, 0, 0, 0, 0, 0, 0, 1, 2, 2, 1, 0, 0, 0, 0, 0 >>,
     << 0, 0, 0, 0, 0, 0, 0, 0, 1, 2, 1, 0, 0, 0, 0, 0 >>,
     << 0, 0, 0, 0, 0, 0, 0, 0, 1, 1, 0, 0, 0, 0, 0, 0 >> >>

cursor_colors ==
  << << 0, 0, 0, 0 >>, << 0, 0, 0, 255 >>, << 255, 255, 255, 255 >> >>

create_default_pointer ==
  LET w == Len(cursor_data[1])
      h == Len(cursor_data)
  IN [mode |-> "RGBA", w |-> w, h |-> h,
      px |-> [p \in Pixels(w, h) |-> cursor_colors[cursor_data[p[2] + 1][p[1] + 1] + 1]]]

\* ---- pixel formats
\* The pixel at byte offset `at` (0-based) of data in raw mode BGRX or BGR.
UnpackBGR(data, at) == << data[at + 3], data[at + 2], data[at + 1] >>

BytesPerPixel(bpp) ==
  IF bpp = 32 THEN 4
  ELSE IF bpp = 24 THEN 3
  ELSE IF bpp \in {15, 16} THEN 2
  ELSE IF bpp = 8 THEN 1
  ELSE 0

SupportedBpp(bpp) == bpp \in {32, 24, 16, 15, 8}

\* Image.frombytes("RGB", (width, height), data[:expected_size], "raw", rawmode)
\* for the 32 and 24 bpp raw modes.
FromBytes(width, height, data, bpp) ==
  LET n == BytesPerPixel(bpp) IN
  [mode |-> "RGB", w |-> width, h |-> height,
   px |-> [p \in Pixels(width, height) |-> UnpackBGR(data, (p[2] * width + p[1]) * n)]]

\* A decoding that leaves the rows in the order they arrived.
NoFlip(img) == img

\* img.transpose(Image.Transpose.FLIP_TOP_BOTTOM)
FlipTopBottom(img) ==
  [img EXCEPT !.px = [p \in Pixels(img.w, img.h) |-> img.px[<< p[1], img.h - 1 - p[2] >>]]]

InBox(p, x, y, w, h) ==
  /\ x <= p[1] /\ p[1] < x + w
  /\ y <= p[2] /\ p[2] < y + h

RGBOf(pixel) == << pixel[1], pixel[2], pixel[3] >>

\* A paste cut short after the first row of src.
PasteFirstRow(dst, src, x, y) ==
  [dst EXCEPT !.px = [p \in Pixels(dst.w, dst.h) |->
     IF InBox(p, x, y, src.w, 1)
       THEN RGBOf(src.px[<< p[1] - x, p[2] - y >>])
       ELSE dst.px[p]]]

\* dst.paste(src, (x, y)): the part of src that falls on dst replaces it.
Paste(dst, src, x, y) ==
  [dst EXCEPT !.px = [p \in Pixels(dst.w, dst.h) |->
     IF InBox(p, x, y, src.w, src.h)
       THEN RGBOf(src.px[<< p[1] - x, p[2] - y >>])
       ELSE dst.px[p]]]

Blend(s, d, a) == (s * a + d * (255 - a)) \div 255

\* dst.paste(src, (x, y), src) for an RGBA src: its alpha is the mask.
PasteMasked(dst, src, x, y) ==
  [dst EXCEPT !.px = [p \in Pixels(dst.w, dst.h) |->
     IF InBox(p, x, y, src.w, src.h)
       THEN LET s == src.px[<< p[1] - x, p[2] - y >>]
                d == dst.px[p]
            IN << Blend(s[1], d[1], s[4]), Blend(s[2], d[2], s[4]),
                  Blend(s[3], d[3], s[4]) >>
       ELSE dst.px[p]]]

\* image.convert("RGB") where the mode is not RGB, and tobytes().
ConvertRGB(img) ==
  IF img.mode = "RGB" THEN img
  ELSE [mode |-> "RGB", w |-> img.w, h |-> img.h,
        px |-> [p \in Pixels(img.w, img.h) |-> RGBOf(img.px[p])]]

ToBytes(img) ==
  [k \in 1..(img.w * img.h * 3) |->
     img.px[<< ((k - 1) \div 3) % img.w, ((k - 1) \div 3) \div img.w >>][((k - 1) % 3) + 1]]

\* ---- the pointer overlay
\* The custom pointer if one is set, otherwise the default arrow, and where
\* its top-left corner goes: the position less the hotspot.
CurrentPointer ==
  IF pointer_image # NoImage THEN pointer_image ELSE create_default_pointer

CurrentHotspot == IF pointer_image # NoImage THEN pointer_hotspot ELSE << 0, 0 >>

PointerOrigin == << pointer_x - CurrentHotspot[1], pointer_y - CurrentHotspot[2] >>

\* `if self._pointer_visible:` and the bounds test of the paste.
PointerDrawn ==
  /\ pointer_visible
  /\ -CurrentPointer.w < PointerOrigin[1] /\ PointerOrigin[1] < Width
  /\ -CurrentPointer.h < PointerOrigin[2] /\ PointerOrigin[2] < Height

\* _update_consumer_buffer from `if self._pointer_visible:` on, applied to img.
CompositePointer(img) ==
  IF PointerDrawn
    THEN IF CurrentPointer.mode = "RGBA"
           THEN PasteMasked(img, CurrentPointer, PointerOrigin[1], PointerOrigin[2])
           ELSE Paste(img, CurrentPointer, PointerOrigin[1], PointerOrigin[2])
    ELSE img

\* _update_consumer_buffer: the consumer buffer and the dirty flag it leaves.
update_consumer_buffer ==
  IF screen_buffer = NoImage
    THEN [consumer |-> consumer_buffer, dirty |-> consumer_buffer_dirty]
    ELSE LET base == IF \/ consumer_buffer = NoImage
                        \/ consumer_buffer.w # screen_buffer.w
                        \/ consumer_buffer.h # screen_buffer.h
                       THEN NewImage(Width, Height)
                       ELSE consumer_buffer
         IN [consumer |-> CompositePointer(Paste(base, screen_buffer, 0, 0)),
             dirty |-> FALSE]

\* A refresh that clears the flag and leaves the composited surface as it was.
RefreshedFlagOnly == [consumer |-> consumer_buffer, dirty |-> FALSE]

\* `if self._consumer_buffer_dirty or self._consumer_buffer is None:` update.
RefreshedConsumer ==
  IF consumer_buffer_dirty \/ consumer_buffer = NoImage
    THEN update_consumer_buffer
    ELSE [consumer |-> consumer_buffer, dirty |-> consumer_buffer_dirty]

\* The operations that read or write the surface and the pointer, and
\* those whose body runs under `async with self._screen_lock`.
SurfaceOps == {"screenshot", "add_frame", "apply_bitmap", "update_pointer"}

HoldsScreenLock(op) == op \in {"screenshot", "apply_bitmap"}

Touch(op) ==
  [touched EXCEPT ![op] = IF HoldsScreenLock(op) THEN "locked" ELSE "unlocked"]

SurfaceInit ==
  /\ screen_buffer = NoImage
  /\ consumer_buffer = NoImage
  /\ consumer_buffer_dirty = TRUE
  /\ pointer_x = 0
  /\ pointer_y = 0
  /\ pointer_visible = TRUE
  /\ pointer_image = NoImage
  /\ pointer_hotspot = << 0, 0 >>
  /\ last_pointer_update = 0
  /\ raw_frames = << >>
  /\ frame_count = 0
  /\ fpc = "idle"
  /\ fwrite = NoObject
  /\ calls = [streaming |-> 0, broken |-> 0, raised |-> 0]
  /\ shot = NoImage
  /\ updated = "none"
  /\ bitmap_calls = << >>
  /\ touched = [op \in SurfaceOps |-> "never"]
  /\ applied = << >>

\* What a surface action leaves alone of the video pipeline.
pipelineVars == << streaming, shutting_down, recording_to_file, recording_path,
                   recording_file, handles, ffmpeg_process, procs, reader_task,
                   stderr_task, tasks, chunk_sequence, video_chunks,
                   video_buffer_size, video_queue, recording_start_time, pc,
                   awaited, consumed, last_get >>

pointerVars == << pointer_x, pointer_y, pointer_visible, pointer_image,
                  pointer_hotspot, last_pointer_update >>

frameVars == << raw_frames, frame_count, fpc, fwrite, calls >>

\* ---- initialize_screen
InitializeScreen ==
  /\ screen_buffer' = NewImage(Width, Height)
  /\ consumer_buffer' = NewImage(Width, Height)
  /\ consumer_buffer_dirty' = TRUE
  /\ applied' = << >>
  /\ UNCHANGED << pointerVars, frameVars, shot, updated, bitmap_calls, touched,
                  stats, first_frame_time, now >>
  /\ UNCHANGED pipelineVars
  /\ UNCHANGED clientVars

\* ---- apply_bitmap
\* The bitmap is decoded and pasted: bpp is supported and data is long enough.
Accepted(b) ==
  /\ SupportedBpp(b.bpp)
  /\ Len(b.data) >= b.width * b.height * BytesPerPixel(b.bpp)

\* frombytes of data[:expected_size], then the vertical flip.
DecodeBitmap(b) ==
  FlipTopBottom(FromBytes(b.width, b.height,
                          Slice(b.data, 0, b.width * b.height * BytesPerPixel(b.bpp)),
                          b.bpp))

\* A counter of apply_bitmap calls, pasted or not.
CountBitmapCalls(s, pasted) == [s EXCEPT !.bitmaps_applied = @ + 1]

\* `self._stats["bitmaps_applied"] += 1` follows the paste; the early
\* returns for an unsupported depth and for short data come before it.
CountBitmap(s, pasted) ==
  IF pasted THEN [s EXCEPT !.bitmaps_applied = @ + 1] ELSE s

\* A dropped rectangle that marks the surface for redraw all the same.
DirtyAfterDropSet(uninit, dirty) == TRUE

\* The early returns of apply_bitmap leave the flag alone; initialize_screen,
\* when the call had to run it first, has set it.
DirtyAfterDrop(uninit, dirty) == uninit \/ dirty

\* A paste that leaves the flag as it found it.
DirtyKept(dirty) == dirty

\* `self._consumer_buffer_dirty = True  # Mark for redraw with pointer`
DirtyAfterPaste(dirty) == TRUE

ApplyBitmap(b) ==
  LET uninit == screen_buffer = NoImage
      screen == IF uninit THEN NewImage(Width, Height) ELSE screen_buffer
      consumer == IF uninit THEN NewImage(Width, Height) ELSE consumer_buffer
      pasted == IF uninit THEN << >> ELSE applied
  IN /\ consumer_buffer' = consumer
     /\ stats' = CountBitmap(stats, Accepted(b))
     /\ IF Accepted(b)
          THEN /\ screen_buffer' = Paste(screen, DecodeBitmap(b), b.x, b.y)
               /\ consumer_buffer_dirty' = DirtyAfterPaste(uninit \/ consumer_buffer_dirty)
               /\ applied' = Append(pasted, b)
          ELSE /\ screen_buffer' = screen
               /\ consumer_buffer_dirty' = DirtyAfterDrop(uninit, consumer_buffer_dirty)
               /\ applied' = pasted
     /\ bitmap_calls' = Append(bitmap_calls, IF Accepted(b) THEN "pasted" ELSE "dropped")
     /\ touched' = Touch("apply_bitmap")
     /\ UNCHANGED << pointerVars, frameVars, shot, updated, first_frame_time, now >>
     /\ UNCHANGED pipelineVars
     /\ UNCHANGED clientVars

\* ---- update_pointer
\* A rate limit that still holds at the interval itself.
WithinIntervalOrAt(t, last) == t - last <= pointer_update_interval

\* `now - self._last_pointer_update < self._pointer_update_interval`
WithinInterval(t, last) == t - last < pointer_update_interval

UpdatePointer(a) ==
  LET is_position_only == a.given \cap {"image", "hotspot", "visible"} = {}
  IN /\ IF is_position_only /\ WithinInterval(now, last_pointer_update)
          THEN /\ stats' = [stats EXCEPT !.pointer_updates_throttled = @ + 1]
               /\ updated' = FALSE
               /\ UNCHANGED << pointerVars, consumer_buffer_dirty >>
          ELSE /\ pointer_x' = (IF "x" \in a.given THEN a.x ELSE pointer_x)
               /\ pointer_y' = (IF "y" \in a.given THEN a.y ELSE pointer_y)
               /\ pointer_visible' = (IF "visible" \in a.given THEN a.visible ELSE pointer_visible)
               /\ pointer_image' = (IF "image" \in a.given THEN a.image ELSE pointer_image)
               /\ pointer_hotspot' = (IF "hotspot" \in a.given THEN a.hotspot ELSE pointer_hotspot)
               /\ last_pointer_update' = now
               /\ consumer_buffer_dirty' = TRUE
               /\ stats' = [stats EXCEPT !.pointer_updates = @ + 1]
               /\ updated' = TRUE
     /\ touched' = Touch("update_pointer")
     /\ UNCHANGED << screen_buffer, consumer_buffer, frameVars, shot, bitmap_calls,
                     applied, first_frame_time, now >>
     /\ UNCHANGED pipelineVars
     /\ UNCHANGED clientVars

\* ---- screenshot
Screenshot ==
  /\ IF screen_buffer = NoImage
       THEN /\ shot' = NewImage(Width, Height)
            /\ UNCHANGED << consumer_buffer, consumer_buffer_dirty >>
       ELSE /\ consumer_buffer' = RefreshedConsumer.consumer
            /\ consumer_buffer_dirty' = RefreshedConsumer.dirty
            /\ shot' = RefreshedConsumer.consumer
  /\ touched' = Touch("screenshot")
  /\ UNCHANGED << screen_buffer, pointerVars, frameVars, updated, bitmap_calls,
                  applied, stats, first_frame_time, now >>
  /\ UNCHANGED pipelineVars
  /\ UNCHANGED clientVars

\* ---- add_frame and add_raw_frame
\* add_raw_frame up to the await of the write to the encoder's stdin.
\* deque.append on a deque built with maxlen (None: unbounded).
DequeAppend(q, x, maxlen) ==
  IF maxlen # NoObject /\ Len(q) >= maxlen
    THEN IF maxlen = 0 THEN q ELSE Append(Tail(q), x)
    ELSE Append(q, x)

AddRawFrame(data) ==
  /\ fpc = "idle"
  /\ first_frame_time' = (IF first_frame_time = NoObject THEN now ELSE first_frame_time)
  /\ raw_frames' = DequeAppend(raw_frames,
                               [width |-> Width, height |-> Height, data |-> data,
                                format |-> "RGB", timestamp |-> now],
                               raw_frames_maxlen)
  /\ frame_count' = frame_count + 1
  /\ stats' = [stats EXCEPT !.frames_received = @ + 1]
  /\ calls' = [calls EXCEPT !.streaming = IF is_streaming THEN @ + 1 ELSE @]
  /\ IF streaming /\ ~shutting_down /\ ffmpeg_process # NoObject
       THEN fpc' = "writing" /\ fwrite' = ffmpeg_process
       ELSE fpc' = "idle" /\ fwrite' = fwrite

AddFrame(image) ==
  LET frame_image == IF RefreshedConsumer.consumer # NoImage
                       THEN RefreshedConsumer.consumer ELSE image
  IN /\ consumer_buffer' = RefreshedConsumer.consumer
     /\ consumer_buffer_dirty' = RefreshedConsumer.dirty
     /\ AddRawFrame(ToBytes(ConvertRGB(frame_image)))
     /\ touched' = Touch("add_frame")
     /\ UNCHANGED << screen_buffer, pointerVars, shot, updated, bitmap_calls,
                     applied, now >>
     /\ UNCHANGED pipelineVars
     /\ UNCHANGED clientVars

\* add_raw_frame(data) called by itself.
AddRawFrameCall(data) ==
  /\ AddRawFrame(data)
  /\ UNCHANGED << screen_buffer, consumer_buffer, consumer_buffer_dirty,
                  pointerVars, shot, updated, bitmap_calls, touched, applied, now >>
  /\ UNCHANGED pipelineVars
  /\ UNCHANGED clientVars

\* clear_raw_frames()
ClearRawFrames ==
  /\ raw_frames' = << >>
  /\ UNCHANGED << screen_buffer, consumer_buffer, consumer_buffer_dirty,
                  pointerVars, frame_count, fpc, fwrite, calls, shot, updated,
                  bitmap_calls, touched, applied >>
  /\ UNCHANGED videoVars
  /\ UNCHANGED clientVars

\* What stdin.write(data) and flush() do in the executor's thread: they
\* return ("wrote"), raise BrokenPipeError because the encoder is gone
\* ("broken"), or raise ValueError because stop_streaming closed stdin before
\* the thread got to the write ("closed").
WriteResults == {"wrote", "broken", "closed"}

WriteResult(proc) ==
  IF ~proc.stdin_open THEN "closed"
  ELSE IF proc.state = "running" THEN "wrote"
  ELSE "broken"

StdinWrite ==
  /\ fpc = "writing"
  /\ fpc' = WriteResult(procs[fwrite])
  /\ UNCHANGED << screen_buffer, consumer_buffer, consumer_buffer_dirty,
                  pointerVars, raw_frames, frame_count, fwrite, calls, shot,
                  updated, bitmap_calls, touched, applied, stats,
                  first_frame_time, now >>
  /\ UNCHANGED pipelineVars
  /\ UNCHANGED clientVars

\* A count taken whether or not the write returned.
CountEncodedAlways(s, result) == [s EXCEPT !.frames_encoded = @ + 1]

\* `self._stats["frames_encoded"] += 1` follows the awaited write: it runs
\* only when the write returned.
CountEncoded(s, result) ==
  IF result = "wrote" THEN [s EXCEPT !.frames_encoded = @ + 1] ELSE s

\* add_raw_frame resumes after the write: frames_encoded counts a write that
\* returned, `except (BrokenPipeError, OSError): pass` swallows a broken
\* pipe, and any other exception leaves add_raw_frame.
AddFrameWritten ==
  /\ fpc \in WriteResults
  /\ fpc' = "idle"
  /\ fwrite' = NoObject
  /\ stats' = CountEncoded(stats, fpc)
  /\ calls' = [calls EXCEPT !.broken = IF fpc = "broken" THEN @ + 1 ELSE @,
                            !.raised = IF fpc = "closed" THEN @ + 1 ELSE @]
  /\ UNCHANGED << screen_buffer, consumer_buffer, consumer_buffer_dirty,
                  pointerVars, raw_frames, frame_count, shot, updated,
                  bitmap_calls, touched, applied,
                  first_frame_time, now >>
  /\ UNCHANGED pipelineVars
  /\ UNCHANGED clientVars

\* time.time() advances.
Tick ==
  /\ now' = now + 1
  /\ UNCHANGED << screen_buffer, consumer_buffer, consumer_buffer_dirty,
                  pointerVars, frameVars, shot, updated, bitmap_calls, touched,
                  applied, stats,
                  first_frame_time >>
  /\ UNCHANGED pipelineVars
  /\ UNCHANGED clientVars

\* ---- the inputs of the surface specification
Red32 == << 0, 0, 255, 0 >>
Blue32 == << 255, 0, 0, 0 >>
White32 == << 255, 255, 255, 0 >>
Green24 == << 0, 255, 0 >>
White24 == << 255, 255, 255 >>

\* Bitmap updates: two rows at the origin, a column that overlaps them and
\* carries a byte too many, a row that overlaps the column and runs off the
\* surface on the left (and on the right of a narrow one), one whose data is
\* too short and one of an unsupported depth.
Bitmaps ==
  { [x |-> 0, y |-> 0, width |-> 2, height |-> 2, bpp |-> 32,
     data |-> Red32 \o Red32 \o Blue32 \o White32],
    [x |-> 1, y |-> 1, width |-> 1, height |-> 2, bpp |-> 24,
     data |-> Green24 \o White24 \o << 9 >>],
    [x |-> -1, y |-> 2, width |-> 4, height |-> 1, bpp |-> 32,
     data |-> White32 \o Blue32 \o Red32 \o White32],
    [x |-> 0, y |-> 0, width |-> 2, height |-> 2, bpp |-> 32, data |-> Red32],
    [x |-> 0, y |-> 0, width |-> 1, height |-> 1, bpp |-> 7, data |-> Red32] }

OnePixel(mode, pixel) ==
  [mode |-> mode, w |-> 1, h |-> 1, px |-> [p \in Pixels(1, 1) |-> pixel]]

\* The arguments of an update_pointer call: `given` names those that are not
\* None.
PointerArg(given, x, y, visible, image, hotspot) ==
  [given |-> given, x |-> x, y |-> y, visible |-> visible, image |-> image,
   hotspot |-> hotspot]

PointerArgs ==
  { PointerArg({"x", "y"}, 1, 1, TRUE, NoImage, << 0, 0 >>),
    PointerArg({"x"}, 0, 0, TRUE, NoImage, << 0, 0 >>),
    PointerArg({"visible"}, 0, 0, FALSE, NoImage, << 0, 0 >>),
    PointerArg({"image", "hotspot"}, 0, 0, TRUE,
               OnePixel("RGBA", << 0, 255, 0, 255 >>), << 0, 0 >>),
    PointerArg({"image", "hotspot"}, 0, 0, TRUE,
               OnePixel("RGB", << 0, 0, 255 >>), << 1, 1 >>) }

FrameImages == { OnePixel("RGBA", << 10, 20, 30, 128 >>) }

(***************************************************************************)
(* Specifications                                                          *)
(***************************************************************************)
Init == ClientInit /\ InputInit /\ CodecInit /\ McpInit /\ AdkInit /\ BrowserInit /\ VideoInit /\ SurfaceInit

\* Every length up to MaxLength encoded in each coding and read back.
CodecNext ==
  \/ \E coding \in Codings, hi \in 0..(MaxLength \div 256) :
       EncodeLengths(coding, hi)
  \/ DecodeLengths

SpecCodec == Init /\ [][CodecNext]_vars

\* connect(record_session=None) and connect(record_session="rec.ts").
RecordSessions == {NoPath, "rec.ts"}

\* The calls made on the MCP server's session functions, one after another.
McpNext ==
  \/ \E record_session \in RecordSessions, ok \in BOOLEAN, spawned \in BOOLEAN :
       McpConnect(record_session, ok, spawned)
  \/ McpDisconnect
  \/ \E spawned \in BOOLEAN : McpStartRecording(spawned)
  \/ McpStopRecording

SpecMcp == Init /\ [][McpNext]_vars

\* One run_async call iterated to its end.
AdkNext ==
  \/ AdkRunAsync
  \/ \E t \in EventTokens : AdkItem(t)
  \/ AdkExhausted
  \/ \E found \in BOOLEAN : AdkAfterLoop(found)

SpecAdk == Init /\ [][AdkNext]_vars

\* Video clients of the browser server coming and going, the reader tasks
\* of the display running beside them.
BrowserNext ==
  \/ \E h \in Callers : WebSocketOpen(h)
  \/ \E h \in Callers : WebSocketAcceptFails(h)
  \/ \E h \in Callers, spawn_ok \in BOOLEAN : VideoClientEnters(h, spawn_ok)
  \/ \E h \in Callers, success, spawn_ok \in BOOLEAN : ConnectRdpDone(h, success, spawn_ok)
  \/ \E h \in Callers, spawn_ok \in BOOLEAN : VideoLoopRestart(h, spawn_ok)
  \/ \E h \in Callers : VideoClientLeaves(h)
  \/ \E h \in Callers : VideoClientGone(h)
  \/ \E h \in Callers : StopReaderAwaited(h)
  \/ \E h \in Callers : StopStderrAwaited(h)
  \/ \E id \in 1..Len(tasks) : TaskStart(id)
  \/ \E id \in 1..Len(tasks) : TaskReadEmpty(id)
  \/ \E id \in 1..Len(tasks) : TaskCancelled(id)

SpecBrowser == Init /\ [][BrowserNext]_vars

\* The connection sequence of one client.
SpecClient == Init /\ [][ClientNext]_vars

\* The input calls the producers make: one task clicks, the other types
\* and clicks.
InputCalls(p) ==
  LET click(x, y, button, double) ==
        [op |-> "mouse_click", x |-> x, y |-> y, button |-> button,
         double_click |-> double, by |-> "", first |-> 0]
      key(code) ==
        [op |-> "send_key", x |-> code, y |-> 0, button |-> 0,
         double_click |-> FALSE, by |-> "", first |-> 0]
  IN  IF p = "p" THEN {click(100, 200, 1, FALSE), click(7, 9, 2, TRUE)}
                 ELSE {key(30), click(100, 200, 1, FALSE)}

\* Input producers calling mouse_click and send_key side by side.
InputNext ==
  \/ \E p \in Producers : \E call \in InputCalls(p) :
       Len(input_calls) < MaxInputCalls /\ InputCall(p, call)
  \/ \E p \in Producers : WriteBegin(p)
  \/ \E p \in Producers : WriteEnd(p)

SpecInput == Init /\ [][InputNext]_vars

\* The stdout reader against the bounded queue: one encoder run, a consumer
\* that takes chunks or does not, and a recording started before the first
\* chunk or not at all.
QueueNext ==
  \/ \E ok \in BOOLEAN : StartStreaming("a", ok)
  \/ chunk_sequence = 0 /\ StartFileRecording("a", "rec.ts", TRUE, TRUE)
  \/ \E id \in 1..Len(tasks) : tasks[id].kind = "reader" /\ TaskStart(id)
  \/ \E id \in 1..Len(tasks) : tasks[id].kind = "reader" /\ TaskReadEmpty(id)
  \/ \E id \in 1..Len(tasks) :
        chunk_sequence < MaxChunks /\ ReaderChunk(id, CHUNK_SIZE, TRUE)
  \/ GetNextVideoChunk
  \/ GetNextVideoChunkTimeout

SpecQueue == Init /\ [][QueueNext]_vars

\* The encoder's life cycle under the calls of the callers in T.
EncoderNext(T) ==
  \/ \E t \in T, ok \in BOOLEAN : StartStreaming(t, ok)
  \/ \E t \in T, path \in Paths, ok \in BOOLEAN, open_ok \in BOOLEAN :
        StartFileRecording(t, path, ok, open_ok)
  \/ \E t \in T : StopFileRecording(t)
  \/ \E t \in T : StopStreaming(t)
  \/ \E t \in T : StopReaderAwaited(t)
  \/ \E t \in T : StopStderrAwaited(t)
  \/ \E id \in 1..Len(tasks) : TaskStart(id)
  \/ \E id \in 1..Len(tasks) : TaskReadEmpty(id)
  \/ \E id \in 1..Len(tasks) : TaskCancelled(id)
  \/ \E id \in 1..Len(tasks) : StderrLine(id)
  \/ \E id \in 1..Len(tasks), ok \in BOOLEAN :
        chunk_sequence < MaxRunChunks /\ ReaderChunk(id, CHUNK_SIZE, ok)
  \/ \E p \in 1..Len(procs) : ProcessExits(p)

\* One caller: each call starts after the previous one returned.
SpecEncoder == Init /\ [][EncoderNext({"a"})]_vars

\* Two callers, whose calls interleave at the suspension points of
\* stop_streaming; the encoder's output is left unread.
ConcNext(T) ==
  \/ \E t \in T, ok \in BOOLEAN : StartStreaming(t, ok)
  \/ \E t \in T, path \in Paths, ok \in BOOLEAN, open_ok \in BOOLEAN :
        StartFileRecording(t, path, ok, open_ok)
  \/ \E t \in T : StopFileRecording(t)
  \/ \E t \in T : StopStreaming(t)
  \/ \E t \in T : StopReaderAwaited(t)
  \/ \E t \in T : StopStderrAwaited(t)
  \/ \E id \in 1..Len(tasks) : TaskStart(id)
  \/ \E id \in 1..Len(tasks) : TaskReadEmpty(id)
  \/ \E id \in 1..Len(tasks) : TaskCancelled(id)
  \/ \E p \in 1..Len(procs) : ProcessExits(p)

SpecEncoderConc == Init /\ [][ConcNext(Callers)]_vars

\* Two callers of start_streaming and stop_streaming alone, with an encoder
\* that always starts and never exits on its own.
RestartNext ==
  \/ \E t \in Callers : StartStreaming(t, TRUE)
  \/ \E t \in Callers : StopStreaming(t)
  \/ \E t \in Callers : StopReaderAwaited(t)
  \/ \E t \in Callers : StopStderrAwaited(t)
  \/ \E id \in 1..Len(tasks) : TaskStart(id)
  \/ \E id \in 1..Len(tasks) : TaskReadEmpty(id)
  \/ \E id \in 1..Len(tasks) : TaskCancelled(id)

SpecRestart == Init /\ [][RestartNext]_vars

\* The surface: bitmap updates, pointer updates, screenshots and frame
\* captures in any order, the encoder not running.
SurfaceCalls ==
  Len(bitmap_calls) + stats.pointer_updates + stats.pointer_updates_throttled
    + stats.frames_received

SurfaceNext ==
  \/ InitializeScreen
  \/ \E b \in Bitmaps : SurfaceCalls < MaxCalls /\ ApplyBitmap(b)
  \/ \E a \in PointerArgs : SurfaceCalls < MaxCalls /\ UpdatePointer(a)
  \/ Screenshot
  \/ \E image \in FrameImages : SurfaceCalls < MaxCalls /\ AddFrame(image)
  \/ now < pointer_update_interval + MaxTicks /\ Tick

SpecSurface == Init /\ [][SurfaceNext]_vars

\* Frames captured while the encoder is started, runs, dies and is stopped:
\* one caller of the streaming API and the capture path beside it.
RawFrames == { << 1, 2, 3 >>, << 4, 5, 6 >> }

FramesNext ==
  \/ \E ok \in BOOLEAN : StartStreaming("a", ok)
  \/ StopStreaming("a")
  \/ StopReaderAwaited("a")
  \/ StopStderrAwaited("a")
  \/ \E id \in 1..Len(tasks) : TaskStart(id)
  \/ \E id \in 1..Len(tasks) : TaskCancelled(id)
  \/ \E p \in 1..Len(procs) : ProcessExits(p)
  \/ \E data \in RawFrames : stats.frames_received < MaxFrames /\ AddRawFrameCall(data)
  \/ \E image \in FrameImages : stats.frames_received < MaxFrames /\ AddFrame(image)
  \/ StdinWrite
  \/ AddFrameWritten

SpecFrames == Init /\ [][FramesNext]_vars

\* The raw frame buffer by itself: frames are added until the buffer could
\* hold more than max_raw_frames, and the buffer is cleared.
RawBufferNext ==
  \/ \E data \in RawFrames :
       frame_count < max_raw_frames + MaxOverfill /\ AddRawFrameCall(data)
  \/ raw_frames # << >> /\ ClearRawFrames

SpecRawBuffer == Init /\ [][RawBufferNext]_vars

\* The executor's thread gets to run the write, and the event loop resumes
\* the coroutine that awaits it.
SpecFramesFair ==
  SpecFrames /\ WF_vars(StdinWrite) /\ WF_vars(AddFrameWritten)

\* The consumer against the reader across encoder runs: the runs before the
\* last are stopped after MaxRunChunks chunks between them at most, the last
\* one is left running and produces enough to overrun the queue.
ConsumeNext ==
  \/ StartStreaming("a", TRUE)
  \/ Len(procs) < MaxProcs /\ StopStreaming("a")
  \/ StopReaderAwaited("a")
  \/ StopStderrAwaited("a")
  \/ \E id \in 1..Len(tasks) : tasks[id].kind = "reader" /\ TaskStart(id)
  \/ \E id \in 1..Len(tasks) : TaskCancelled(id)
  \/ \E id \in 1..Len(tasks) :
        /\ chunk_sequence < MaxChunks
        /\ chunk_sequence < MaxRunChunks \/ Len(procs) = MaxProcs
        /\ ReaderChunk(id, CHUNK_SIZE, TRUE)
  \/ GetNextVideoChunk
  \/ GetNextVideoChunkTimeout

SpecConsume == Init /\ [][ConsumeNext]_vars

\* The sizes read(CHUNK_SIZE) returns: a full chunk, or a short one.
ChunkLens == {1, CHUNK_SIZE - 1, CHUNK_SIZE}

\* The stdout reader against the chunk buffer: one encoder run whose reads
\* return chunks of several sizes, and a caller that clears the buffer.
BufferNext ==
  \/ StartStreaming("a", TRUE)
  \/ \E id \in 1..Len(tasks) : tasks[id].kind = "reader" /\ TaskStart(id)
  \/ \E id \in 1..Len(tasks), len \in ChunkLens :
        chunk_sequence < MaxBufferChunks /\ ReaderChunk(id, len, TRUE)
  \/ video_chunks # << >> /\ ClearVideoChunks

SpecBuffer == Init /\ [][BufferNext]_vars

Next ==
  \/ CodecNext
  \/ BrowserNext
  \/ AdkNext
  \/ McpNext
  \/ InputNext
  \/ BufferNext
  \/ RawBufferNext
  \/ ClientNext \/ QueueNext \/ EncoderNext({"a"}) \/ ConcNext(Callers)
  \/ RestartNext
  \/ SurfaceNext
  \/ FramesNext
  \/ ConsumeNext

Spec == Init /\ [][Next]_vars


(***************************************************************************)
(* Properties of the connection sequence (SpecClient)                      *)
(***************************************************************************)
\* The steps of connect in their order, as the lines they log.
ConnectSteps ==
  << "Connected to RDP server", "Sent X.224 packet to RDP server.",
     "X.224 negotiation completed", "Starting TLS Handshake...",
     "TLS Handshake successful.", "Starting NLA authentication..." >>

IsPrefix(s, t) == Len(s) <= Len(t) /\ s = SubSeq(t, 1, Len(s))

Logged(line) == line \in Range(log)

\* C5: connect runs TCP connect, X.224 negotiation, TLS upgrade and NLA in
\* that order, each step only after the previous one succeeded; the TLS
\* upgrade starts exactly when the negotiated protocol is TLS or CredSSP, NLA
\* exactly when it is CredSSP and the TLS upgrade succeeded; connect returns
\* only after all of them, and once a step has failed no further step runs.
C5_ConnectOrder ==
  /\ [](/\ IsPrefix(log, ConnectSteps)
        /\ Logged("Starting TLS Handshake...") <=>
             /\ Logged("X.224 negotiation completed")
             /\ Protocol \in {PROTOCOL_SSL, PROTOCOL_HYBRID}
        /\ Logged("Starting NLA authentication...") <=>
             /\ Logged("TLS Handshake successful.")
             /\ Protocol = PROTOCOL_HYBRID
        /\ cpc = "connect_returned" => log = ConnectSteps
        /\ cpc = "tls" => socks[tcp_writer] = "open"
        /\ Logged("TLS Handshake successful.") => socks[tcp_writer] # "open")
  /\ [][cpc = "connect_raised" /\ cpc' # "tcp" => log' = log]_vars

\* A connect to a CredSSP server went through all four steps.
C5_Witness ==
  /\ cpc = "connect_returned"
  /\ log = ConnectSteps
  /\ Protocol = PROTOCOL_HYBRID
  /\ socks[tcp_writer] = "tls"

\* C6: whenever connect has raised, is_connected is false.
C6_NotConnectedAfterRaise == cpc = "connect_raised" => ~connected

\* C7: once a failure of connect has propagated the socket it opened is no
\* longer open, and after disconnect returned the socket is closed even when
\* an earlier step had failed.
C7_SocketClosedOnError ==
  /\ cpc = "connect_raised" /\ Logged("Connected to RDP server") =>
       socks[tcp_writer] = "closed"
  /\ cpc = "disconnect_returned" => socks[tcp_writer] = "closed"


(***************************************************************************)
(* Properties of the chunk queue and the recording (SpecQueue)             *)
(***************************************************************************)
\* C1: the queue never holds more than its bound; a chunk offered to a full
\* queue is not enqueued and adds exactly one to queue_drops, and queue_drops
\* changes in no other step.
C1_QueueBounded ==
  /\ [](Len(video_queue) <= QueueMaxSize)
  /\ [][/\ (chunk_sequence' # chunk_sequence /\ Len(video_queue) = QueueMaxSize) =>
             /\ video_queue' = video_queue
             /\ stats'.queue_drops = stats.queue_drops + 1
        /\ stats'.queue_drops # stats.queue_drops =>
             /\ chunk_sequence' = chunk_sequence + 1
             /\ Len(video_queue) = QueueMaxSize
             /\ stats'.queue_drops = stats.queue_drops + 1]_vars

\* Chunks were dropped at a full queue while a consumer had taken some.
C1_Witness ==
  /\ stats.queue_drops > 0
  /\ consumed # << >>
  /\ Len(video_queue) = QueueMaxSize

ProducedData(i) == [src |-> ffmpeg_process, idx |-> i - 1, len |-> CHUNK_SIZE]

C8_OneEncoder ==
  /\ [](/\ Cardinality(LiveProcs) <= 1
        /\ LiveProcs \subseteq {ffmpeg_process}
        /\ is_encoding => streaming)
  /\ [][/\ Len(procs') > Len(procs) =>
             /\ ~is_encoding /\ ~streaming /\ ~recording_to_file
             /\ Len(procs') = Len(procs) + 1
        /\ \A t \in Callers, ok \in BOOLEAN :
             (is_encoding /\ StartStreaming(t, ok)) => UNCHANGED vars]_vars

\* A second encoder runs, started while a stop_streaming of the first is
\* still awaiting a reader task.
C8_Witness ==
  /\ Len(procs) = 2
  /\ LiveProcs = {2}
  /\ ffmpeg_process = 2
  /\ \E t \in Callers : pc[t] # "idle"

\* What stop_streaming leaves behind.
EncoderStopped ==
  /\ ~is_streaming /\ ~streaming /\ ~shutting_down
  /\ ffmpeg_process = NoObject
  /\ \A p \in 1..Len(procs) : procs[p].state = "exited" /\ ~procs[p].stdin_open
  /\ reader_task = NoObject /\ stderr_task = NoObject
  /\ \A id \in 1..Len(tasks) : tasks[id].state = "done"
  /\ recording_file = NoObject /\ ~recording_to_file
  /\ \A h \in 1..Len(handles) : ~handles[h].open

Covers(b, p) == InBox(p, b.x, b.y, b.width, b.height)

\* The pixel update b writes at p: its rows arrive bottom-up, its pixels as
\* blue, green, red.
WrittenAt(b, p) ==
  LET row == b.height - 1 - (p[2] - b.y)
      at == (row * b.width + (p[1] - b.x)) * BytesPerPixel(b.bpp)
  IN << b.data[at + 3], b.data[at + 2], b.data[at + 1] >>

\* The pixel the latest of the updates `ups` covering p wrote there, black
\* where none covers it.
LastWritten(ups, p) ==
  LET ks == {k \in 1..Len(ups) : Covers(ups[k], p)}
  IN IF ks = {} THEN Black
     ELSE WrittenAt(ups[CHOOSE k \in ks : \A j \in ks : j <= k], p)

ReplayOf(ups) ==
  [mode |-> "RGB", w |-> Width, h |-> Height,
   px |-> [p \in Pixels(Width, Height) |-> LastWritten(ups, p)]]

\* The pointer's pixel drawn over p, when the pointer is drawn there.
PointerPixelAt(p) ==
  CurrentPointer.px[<< p[1] - PointerOrigin[1], p[2] - PointerOrigin[2] >>]

PointerCovers(p) ==
  /\ PointerDrawn
  /\ InBox(p, PointerOrigin[1], PointerOrigin[2], CurrentPointer.w, CurrentPointer.h)
  /\ CurrentPointer.mode = "RGBA" => PointerPixelAt(p)[4] # 0

WholePrefixes ==
  {CompositePointer(ReplayOf(SubSeq(applied, 1, k))) : k \in 0..Len(applied)}

\* C4: bitmap applications take effect one after the other, each as a
\* whole: the raw surface is always the replay of the updates applied so
\* far, each application adds one update to that order, and every
\* screenshot and every captured frame is the raster of a complete prefix
\* of them.
C4_NoPartialPaste ==
  /\ [](screen_buffer # NoImage => screen_buffer = ReplayOf(applied))
  /\ [][/\ stats'.bitmaps_applied # stats.bitmaps_applied =>
             \E b \in Bitmaps : applied' = Append(IF screen_buffer = NoImage
                                                    THEN << >> ELSE applied, b)
        /\ (Screenshot /\ screen_buffer # NoImage) => shot' \in WholePrefixes
        /\ (frame_count' # frame_count /\ screen_buffer # NoImage) =>
             \E img \in WholePrefixes :
               raw_frames'[Len(raw_frames')].data = ToBytes(img)]_vars

\* After a two-row bitmap and a pointer update, a screenshot and a frame
\* were captured, both showing the bitmap whole.
C4_Witness ==
  /\ Len(applied) >= 1 /\ applied[1].height = 2
  /\ stats.pointer_updates >= 1
  /\ shot = CompositePointer(ReplayOf(applied))
  /\ raw_frames # << >>
  /\ raw_frames[Len(raw_frames)].data = ToBytes(shot)


(***************************************************************************)
(* Properties of the capture path (SpecFramesFair, SpecFrames)             *)
(***************************************************************************)
\* The add_raw_frame calls made while streaming that returned.
SuccessfulCalls == calls.streaming - calls.raised

C12_RestartOrDisable ==
  [][(fpc = "broken" /\ AddFrameWritten) =>
       /\ Len(procs') > Len(procs) \/ ~is_streaming'
       /\ calls'.raised = calls.raised]_vars

\* What the code does on a broken pipe: nothing but swallow it.
C12_BrokenPipeIgnored ==
  [][(fpc = "broken" /\ AddFrameWritten) =>
       /\ UNCHANGED << videoVars, calls.raised >>
       /\ is_streaming' = is_streaming]_vars


(***************************************************************************)
(* Properties of the pointer, the counters and the dirty flag (SpecSurface)*)
(***************************************************************************)
PositionOnly(a) == a.given \subseteq {"x", "y"}

\* C13: update_pointer is throttled exactly when the call gives a position
\* only and less than 1/fps has passed since the last applied update: it
\* then returns False, adds one to pointer_updates_throttled and leaves the
\* pointer, the dirty flag and the throttle timestamp as they were; every
\* other call, one made exactly 1/fps after the last applied update
\* included, is applied: it returns True, sets what it was given, stamps the
\* time, sets the dirty flag and adds one to pointer_updates.
C13_PointerThrottle ==
  [][\A a \in PointerArgs : UpdatePointer(a) =>
       IF PositionOnly(a) /\ now - last_pointer_update < pointer_update_interval
         THEN /\ updated' = FALSE
              /\ UNCHANGED << pointer_x, pointer_y, pointer_visible, pointer_image,
                              pointer_hotspot, last_pointer_update,
                              consumer_buffer_dirty, consumer_buffer >>
              /\ stats' = [stats EXCEPT !.pointer_updates_throttled = @ + 1]
         ELSE /\ updated' = TRUE
              /\ "x" \in a.given => pointer_x' = a.x
              /\ "y" \in a.given => pointer_y' = a.y
              /\ "visible" \in a.given => pointer_visible' = a.visible
              /\ last_pointer_update' = now
              /\ consumer_buffer_dirty'
              /\ stats' = [stats EXCEPT !.pointer_updates = @ + 1]]_vars

\* A position-only call was throttled and left the pointer where the first
\* call had put it; the next one, made exactly 1/fps after the first, was
\* applied.
C13_Witness ==
  /\ stats.pointer_updates = 2
  /\ stats.pointer_updates_throttled = 1
  /\ updated = TRUE
  /\ last_pointer_update = 2 * pointer_update_interval
  /\ now = last_pointer_update
  /\ pointer_x = 0 /\ pointer_y = 1


(***************************************************************************)
(* Properties of the chunk sequence and the consumer (SpecConsume)         *)
(***************************************************************************)
\* C14: the chunks get_next_video_chunk has returned carry strictly
\* increasing sequence numbers, and every chunk still queued carries a
\* larger one than any returned, whatever was dropped and however often the
\* encoder was stopped and started again.
C14_ConsumedIncreasing ==
  /\ \A i \in 1..(Len(consumed) - 1) : consumed[i] < consumed[i + 1]
  /\ (consumed # << >> /\ video_queue # << >>) =>
       consumed[Len(consumed)] < Head(video_queue).sequence
  /\ \A k \in 1..(Len(video_queue) - 1) :
       video_queue[k].sequence < video_queue[k + 1].sequence

\* The consumer has received chunks of two encoder runs, with a gap where
\* the full queue had dropped one.
C14_Witness ==
  /\ Len(procs) = 2
  /\ procs[1].nread > 0 /\ procs[2].nread > 0
  /\ stats.queue_drops > 0
  /\ consumed # << >>
  /\ consumed[1] < procs[1].nread
  /\ consumed[Len(consumed)] >= procs[1].nread
  /\ \E i \in 1..(Len(consumed) - 1) : consumed[i + 1] > consumed[i] + 1

\* The chunks the encoder runs before run p produced.
RECURSIVE RunBase(_)
RunBase(p) == IF p <= 1 THEN 0 ELSE RunBase(p - 1) + procs[p - 1].nread

\* The chunk the reader has just produced: the newest in the buffer.
Newest(chunks) == chunks[Len(chunks)]

\* C15: within one encoder run the reader numbers its chunks without a
\* gap: each chunk it produces takes the number after the previous one's,
\* the i-th chunk of a run carries the run's first number plus i - 1, and
\* this is so for the chunks the queue dropped and the buffer evicted as for
\* those they hold.
C15_SequenceContiguous ==
  /\ [](\A k \in 1..Len(video_queue) :
          video_queue[k].sequence =
            RunBase(video_queue[k].data.src) + video_queue[k].data.idx)
  /\ [](\A k \in 1..Len(video_chunks) :
          video_chunks[k].sequence =
            RunBase(video_chunks[k].data.src) + video_chunks[k].data.idx)
  /\ [](chunk_sequence = RunBase(Len(procs) + 1))
  /\ [][chunk_sequence' # chunk_sequence =>
          /\ Newest(video_chunks').sequence = chunk_sequence
          /\ Newest(video_chunks').sequence =
               RunBase(Newest(video_chunks').data.src) + Newest(video_chunks').data.idx
          /\ chunk_sequence' = chunk_sequence + 1
          /\ video_chunks # << >> => /\ Head(video_chunks').sequence >= Head(video_chunks).sequence
                                     /\ Newest(video_chunks).sequence + 1 = chunk_sequence]_vars

\* Two encoder runs produced chunks, numbered on from the first run's, while
\* the queue dropped some and the buffer evicted others.
C15_Witness ==
  /\ Len(procs) = 2
  /\ procs[1].nread = 2 /\ procs[2].nread > 2
  /\ stats.queue_drops > 0 /\ stats.chunks_evicted > 0
  /\ \E k \in 1..Len(video_queue) :
       /\ video_queue[k].data.src = 2
       /\ video_queue[k].data.idx = 0
       /\ video_queue[k].sequence = 2
  /\ Newest(video_chunks).sequence > Newest(video_queue).sequence

FinalOfRaw == CompositePointer(screen_buffer)

\* C17: every apply_bitmap call that pastes onto the raw surface leaves the
\* dirty flag set, and a screenshot or a frame capture that finds the flag
\* set rebuilds the composited surface from the raw surface as it is then.
C17_PasteSetsDirty ==
  [][/\ \A b \in Bitmaps : (ApplyBitmap(b) /\ Accepted(b)) =>
          /\ consumer_buffer_dirty'
          /\ screen_buffer' = Paste(IF screen_buffer = NoImage
                                       THEN NewImage(Width, Height) ELSE screen_buffer,
                                     DecodeBitmap(b), b.x, b.y)
     /\ screen_buffer' # screen_buffer => consumer_buffer_dirty'
     /\ (Screenshot /\ screen_buffer # NoImage /\ consumer_buffer_dirty) =>
          shot' = FinalOfRaw /\ consumer_buffer' = FinalOfRaw
     /\ (frame_count' # frame_count /\ screen_buffer # NoImage /\ consumer_buffer_dirty) =>
          /\ consumer_buffer' = FinalOfRaw
          /\ Newest(raw_frames').data = ToBytes(FinalOfRaw)]_vars

\* A bitmap was pasted after a screenshot had brought the composited
\* surface up to date: the composited surface is now behind the raw one, and
\* the flag is set.
C17_Witness ==
  /\ shot # NoImage
  /\ consumer_buffer = shot
  /\ Len(applied) = 2
  /\ shot = CompositePointer(ReplayOf(SubSeq(applied, 1, 1)))
  /\ consumer_buffer # FinalOfRaw
  /\ consumer_buffer_dirty

\* The raw surface before a paste, initialized if it was not.
RawForPaste == IF screen_buffer = NoImage THEN NewImage(Width, Height) ELSE screen_buffer

Undecodable(b) ==
  \/ b.bpp \notin {8, 15, 16, 24, 32}
  \/ Len(b.data) < b.width * b.height * ((b.bpp + 7) \div 8)

\* C19 (as the code has it): an apply_bitmap call whose rectangle cannot be
\* decoded pastes nothing and leaves bitmaps_applied as it was; on an
\* initialized surface it leaves the raw surface, the composited surface and
\* the dirty flag unchanged as well, on a surface not yet initialized it
\* initializes both to black with the flag set; and a valid update is
\* pasted whatever calls came before it.
C19_RejectedDropped ==
  [][\A b \in Bitmaps : ApplyBitmap(b) =>
       IF ~Undecodable(b)
         THEN /\ screen_buffer' = Paste(RawForPaste, DecodeBitmap(b), b.x, b.y)
              /\ stats'.bitmaps_applied = stats.bitmaps_applied + 1
         ELSE /\ stats' = stats
              /\ UNCHANGED << pointerVars, frameVars, shot >>
              /\ IF screen_buffer # NoImage
                   THEN UNCHANGED << screen_buffer, consumer_buffer,
                                     consumer_buffer_dirty, applied >>
                   ELSE /\ screen_buffer' = NewImage(Width, Height)
                        /\ consumer_buffer' = NewImage(Width, Height)
                        /\ consumer_buffer_dirty']_vars

\* On a surface that showed one update, a rectangle was dropped and the one
\* after it was pasted.
C19_Witness ==
  /\ bitmap_calls = << "pasted", "dropped", "pasted" >>
  /\ Len(applied) = 2
  /\ applied[1] # applied[2]
  /\ stats.bitmaps_applied = 2
  /\ screen_buffer = ReplayOf(applied)

\* C19 as stated: a call whose rectangle cannot be decoded leaves the raw
\* surface, the composited surface, the dirty flag and bitmaps_applied
\* unchanged.
C19_RejectedChangesNothing ==
  [][\A b \in Bitmaps : (ApplyBitmap(b) /\ Undecodable(b)) =>
       UNCHANGED << screen_buffer, consumer_buffer, consumer_buffer_dirty,
                    stats >>]_vars

\* C20: screenshot, add_frame, apply_bitmap and update_pointer touch the
\* raw surface, the composited surface, the dirty flag and the pointer
\* only while holding the surface lock.
C20_TouchedUnderLock ==
  \A op \in SurfaceOps : touched[op] # "unlocked"


(***************************************************************************)
(* Properties of the X.224 negotiation and of disconnect (SpecClient)      *)
(***************************************************************************)
\* The four bytes b read as an unsigned integer, least significant first.
LittleEndian(b) == b[1] + 256 * b[2] + 65536 * b[3] + 16777216 * b[4]

\* The four bytes b read as an unsigned integer, most significant first.
BigEndian(b) == b[4] + 256 * b[3] + 65536 * b[2] + 16777216 * b[1]

\* A Connection Confirm that carries the whole negotiation structure.
FullConfirm == 19

\* C21: a step that parses a complete Connection Confirm of type 0x02
\* records as protocol the selectedProtocol field read little-endian; one of
\* type 0x03 or of any other type makes connect raise ConnectionError with
\* connection_properties untouched, no TLS upgrade and no NLA started.
C21_ConfirmType ==
  [][\A response \in {r \in Responses : Len(r) = FullConfirm} :
       X224Response(response) =>
         IF response[12] = 2
           THEN /\ "protocol" \in DOMAIN connection_properties'
                /\ Len(connection_properties'.protocol) = 4
                /\ BigEndian(connection_properties'.protocol) =
                     LittleEndian(<< response[16], response[17],
                                     response[18], response[19] >>)
                /\ protocol_writes' = protocol_writes + 1
           ELSE /\ cpc' = "connect_raised"
                /\ exc'.type = "ConnectionError"
                /\ connection_properties' = connection_properties
                /\ protocol_writes' = protocol_writes
                /\ log' = log
                /\ socks' = socks]_vars

\* A first connect recorded CredSSP; a second one was answered with a
\* negotiation failure, raised and recorded nothing.
C21_Witness ==
  /\ cpc = "connect_raised"
  /\ exc = ConnectionError("RDP negotiation failed as per server response.")
  /\ Len(socks) = 2
  /\ Protocol = PROTOCOL_HYBRID
  /\ protocol_writes = 0
  /\ ~Logged("Starting TLS Handshake...")


\* A response that is not a negotiation response (type 0x02).
NegotiationFails(response) == Len(response) < 12 \/ response[12] # 2

\* C22: within one connect call connection_properties["protocol"] is
\* assigned at most once, only in the step that parsed the response; the
\* TLS upgrade starts, and connect returns, only with that one assignment
\* made; a connect whose negotiation failed has assigned nothing.
C22_ProtocolWrittenOnce ==
  /\ [](/\ protocol_writes <= 1
        /\ Logged("Starting TLS Handshake...") => protocol_writes = 1
        /\ cpc \in {"tls", "connect_returned"} => protocol_writes = 1
        /\ Logged("X.224 negotiation completed") <=> protocol_writes = 1
        /\ protocol_writes = 1 => "protocol" \in DOMAIN connection_properties)
  /\ [][/\ connection_properties' # connection_properties =>
             protocol_writes' = protocol_writes + 1
        /\ protocol_writes' = protocol_writes + 1 =>
             /\ cpc = "x224_read"
             /\ ~Logged("Starting TLS Handshake...")
             /\ socks[tcp_writer] = "open"
             /\ socks' = socks
        /\ \A response \in {r \in Responses : NegotiationFails(r)} :
             X224Response(response) =>
               /\ protocol_writes' = 0
               /\ connection_properties' = connection_properties
               /\ cpc' = "connect_raised"]_vars

\* A connect wrote the protocol once and went on to the TLS upgrade and NLA.
C22_Witness ==
  /\ cpc = "connect_returned"
  /\ protocol_writes = 1
  /\ Protocol = PROTOCOL_HYBRID
  /\ socks[tcp_writer] = "tls"
  /\ Len(socks) = 2


\* C23: a step that parses a response shorter than a full Connection Confirm
\* makes connect raise ConnectionError, and no TLS upgrade starts.
C23_TruncatedIsConnectionError ==
  [][\A response \in {r \in Responses : Len(r) < FullConfirm} :
       X224Response(response) =>
         /\ cpc' = "connect_raised"
         /\ exc'.type = "ConnectionError"
         /\ log' \in {log, Append(log, "X.224 negotiation completed")}
         /\ socks' = socks]_vars


\* C24: disconnect never raises, and whenever it has returned is_connected
\* is false, on a client in any state.
C24_DisconnectNeverRaises ==
  /\ cpc # "disconnect_raised"
  /\ cpc = "disconnect_returned" => ~connected


(***************************************************************************)
(* Properties of the raw frame buffer (SpecRawBuffer)                      *)
(***************************************************************************)
raw_frame_count == Len(raw_frames)

\* C25: on a display built without max_raw_frames the buffer never holds
\* more than max_raw_frames = fps * 10 frames.
C25_RawFramesBounded == raw_frame_count <= max_raw_frames


(***************************************************************************)
(* Properties of add_frame (SpecSurface)                                   *)
(***************************************************************************)
\* C26: the frame add_frame(image) stores holds the RGB pixels of image,
\* with or without the pointer drawn over them, whether or not the surface
\* is initialized.
C26_FrameIsImage ==
  [][\A image \in FrameImages :
       AddFrame(image) =>
         Newest(raw_frames').data \in
           { ToBytes(ConvertRGB(image)),
             ToBytes(CompositePointer(ConvertRGB(image))) }]_vars


(***************************************************************************)
(* Properties of the chunk buffer (SpecBuffer)                             *)
(***************************************************************************)
RECURSIVE TotalSize(_)
TotalSize(chunks) ==
  IF chunks = << >> THEN 0 ELSE Head(chunks).data.len + TotalSize(Tail(chunks))

\* C27: the buffered chunks never total more than max_video_buffer_bytes;
\* a step of the reader appends its chunk and evicts from the oldest end
\* exactly as many chunks as it takes to be within the limit, adding one to
\* chunks_evicted for each, and chunks_evicted changes in no other step.
C27_BufferWithinLimit ==
  /\ [](/\ TotalSize(video_chunks) <= max_video_buffer_bytes
        /\ video_buffer_size = TotalSize(video_chunks))
  /\ [][/\ chunk_sequence' # chunk_sequence =>
             LET k == stats'.chunks_evicted - stats.chunks_evicted
                 n == Len(video_chunks)
             IN /\ k \in 0..n
                /\ Len(video_chunks') = n + 1 - k
                /\ SubSeq(video_chunks', 1, n - k) = SubSeq(video_chunks, k + 1, n)
                /\ Newest(video_chunks').sequence = chunk_sequence
                /\ k > 0 => TotalSize(video_chunks') + video_chunks[k].data.len
                              > max_video_buffer_bytes
        /\ stats'.chunks_evicted # stats.chunks_evicted =>
             chunk_sequence' # chunk_sequence]_vars

\* One chunk made the reader evict the two oldest chunks, and the buffer
\* is full to the limit.
C27_Witness ==
  /\ stats.chunks_evicted = 2
  /\ chunk_sequence = 4
  /\ Len(video_chunks) = 2
  /\ video_buffer_size = max_video_buffer_bytes


(***************************************************************************)
(* Properties of file recording (SpecEncoder)                              *)
(***************************************************************************)
\* C28: a start_file_recording call that marks file recording active leaves
\* the display streaming, with the file open; one whose open fails leaves
\* is_file_recording false; stop_file_recording closes the file, clears
\* is_file_recording and leaves the encoder process, the reader tasks and
\* is_streaming as they were.
C28_FileRecording ==
  [][/\ \A path \in Paths, spawn_ok \in BOOLEAN, open_ok \in BOOLEAN :
          (~recording_to_file /\ StartFileRecording("a", path, spawn_ok, open_ok)) =>
             /\ is_file_recording' => (is_streaming' /\ handles'[recording_file'].open)
             /\ ~open_ok => ~is_file_recording'
     /\ (recording_to_file /\ StopFileRecording("a")) =>
          /\ ~is_file_recording'
          /\ ~handles'[recording_file].open
          /\ is_streaming' = is_streaming
          /\ UNCHANGED << procs, tasks, ffmpeg_process, reader_task, stderr_task >>]_vars

\* What holds of C28: stop_file_recording touches only the recording, a
\* failed open leaves is_file_recording false, and start_file_recording
\* spawns an encoder exactly when the _streaming flag is clear.
C28_RecordingByFlag ==
  [][/\ \A path \in Paths, spawn_ok \in BOOLEAN, open_ok \in BOOLEAN :
          (~recording_to_file /\ StartFileRecording("a", path, spawn_ok, open_ok)) =>
             /\ is_file_recording' => (streaming' /\ handles'[recording_file'].open)
             /\ ~open_ok => ~is_file_recording'
             /\ Len(procs') > Len(procs) <=> (~streaming /\ spawn_ok)
     /\ (recording_to_file /\ StopFileRecording("a")) =>
          /\ ~is_file_recording'
          /\ ~handles'[recording_file].open
          /\ is_streaming' = is_streaming
          /\ UNCHANGED << procs, tasks, ffmpeg_process, reader_task, stderr_task >>]_vars


(***************************************************************************)
(* Properties of the input events (SpecInput)                              *)
(***************************************************************************)
\* The fields of the n-th PDU of producer p that are on the wire, in order.
PduWords(p, n) ==
  LET us == SelectSeq(wire, LAMBDA u : u.by = p /\ u.pdu = n)
  IN  [i \in 1..Len(us) |-> us[i].word]

\* The PDUs an input call has begun so far, and whether it has returned.
LaterCalls(i) == {j \in (i + 1)..Len(input_calls) : input_calls[j].by = input_calls[i].by}

PdusOf(i) ==
  LET c == input_calls[i]
  IN  IF LaterCalls(i) = {} THEN npdu[c.by] + 1 - c.first
      ELSE input_calls[CHOOSE j \in LaterCalls(i) : \A m \in LaterCalls(i) : j <= m].first
             - c.first

Returned(i) == LaterCalls(i) # {} \/ ipc[input_calls[i].by] = "idle"

\* The k-th event of a click at (x, y): move, button-down, button-up, over
\* again for the second click of a double-click.
ExpectedClick(c, k) ==
  LET flag == CASE c.button = 1 -> 4096 [] c.button = 2 -> 8192 [] c.button = 3 -> 16384
  IN  << 32769,
         CASE k % 3 = 1 -> 2048
           [] k % 3 = 2 -> flag + 32768
           [] k % 3 = 0 -> flag,
         c.x, c.y >>

ClickCount(c) == IF c.double_click THEN 6 ELSE 3

SamePdu(u, v) == u.by = v.by /\ u.pdu = v.pdu

C31_BerLengthForm ==
  codec.coding \in {"ber", "asn1"} =>
    \A length \in DOMAIN codec.out :
      LET r == codec.out[length]
      IN  IF length <= 127 THEN r = Returns(<< length >>)
          ELSE IF length <= 255 THEN r = Returns(<< 129, length >>)
          ELSE IF length <= 65535
               THEN /\ r.exc = NoExc
                    /\ Len(r.bytes) = 3
                    /\ r.bytes[1] = 130
                    /\ r.bytes[2] \in 0..255
                    /\ r.bytes[3] \in 0..255
                    /\ 256 * r.bytes[2] + r.bytes[3] = length
          ELSE codec.coding = "ber" => r.exc.type = "ValueError"

\* The MCS encoder has encoded the lengths around the short-form boundary.
C31_Witness ==
  /\ codec.coding = "ber"
  /\ 127 \in DOMAIN codec.out
  /\ codec.out[127] = Returns(<< 127 >>)
  /\ codec.out[128] = Returns(<< 129, 128 >>)

\* Length L was encoded and read back as L, the decoder consuming exactly
\* the bytes of the encoding.
RoundTrip(length) ==
  /\ codec.out[length].exc = NoExc
  /\ length \in DOMAIN codec.dec
  /\ codec.dec[length] = << length, Len(codec.out[length].bytes) >>

\* The largest length the two-byte PER form holds.
PerMaxLength == 16383

ShutDown(s) ==
  /\ ~sessions[s].recording
  /\ sessions[s].frame_task # "running"
  /\ sessions[s].encoders = 0
  /\ ~sessions[s].connected

\* C33: when disconnect() returns, the session it found is shut down
\* (frame-capture task cancelled, recording encoder stopped, client
\* disconnected), however its recording was started, and the global session
\* is cleared; when connect() returns having replaced a session, the old
\* session is shut down likewise.
C33_DisconnectStopsRecording ==
  (mcp_last[2] # NoObject /\ mcp_exc = NoExc) =>
     /\ mcp_last[1] = "disconnect" => (ShutDown(mcp_last[2]) /\ session = NoObject)
     /\ mcp_last[1] = "connect" => ShutDown(mcp_last[2])

(***************************************************************************)
(* The dirty flag                                                          *)
(***************************************************************************)
\* The pointer state the composited surface is built from.
PointerState ==
  << pointer_x, pointer_y, pointer_visible, pointer_image, pointer_hotspot >>

TaskRuns(id, kind) ==
  /\ id # NoObject
  /\ tasks[id].kind = kind
  /\ tasks[id].state # "done"
  /\ ~tasks[id].cancel

\* The encoder the display refers to runs, and the display tracks a running
\* stdout reader task and a running stderr reader task.
EncoderWithReaders ==
  /\ ffmpeg_process # NoObject
  /\ procs[ffmpeg_process].state = "running"
  /\ TaskRuns(reader_task, "reader")
  /\ TaskRuns(stderr_task, "stderr")

\* C35: whenever no start_streaming or stop_streaming call is in progress,
\* is_streaming is true exactly when an encoder process runs together with
\* its stdout reader task and its stderr reader task, both being the tasks
\* the display tracks for the next stop to cancel.
C35_StreamingHasReaders ==
  (\A t \in Callers : pc[t] = "idle") => (is_streaming <=> EncoderWithReaders)

(***************************************************************************)
(* File recording and the encoder                                          *)
(***************************************************************************)
\* C36: in every state, is_file_recording implies that streaming is active
\* and that the recording file is open: no sequence or interleaving of
\* start_streaming, start_file_recording, stop_file_recording and
\* stop_streaming leaves file recording marked active without its encoder.
C36_RecordingImpliesStreaming ==
  is_file_recording =>
    /\ is_streaming
    /\ recording_file # NoObject
    /\ handles[recording_file].open

(***************************************************************************)
(* What a full queue drops                                                 *)
(***************************************************************************)
\* The sequence numbers the consumer has received, followed by those of the
\* chunks still queued: what the consumer sees if it reads on.
Delivered ==
  consumed \o [k \in 1..Len(video_queue) |-> video_queue[k].sequence]

\* C37: a chunk offered to a full queue is the one dropped: the queue keeps
\* its contents and order and the offered chunk is not in it. So the
\* consumer receives the chunks in production order, the oldest first (the
\* first QueueMaxSize chunks are never lost), and what it misses are the
\* queue_drops sequence numbers of the chunks offered while the queue was
\* full.
C37_DropsTheNewest ==
  /\ [][(chunk_sequence' # chunk_sequence /\ QueueFull(video_queue)) =>
          /\ video_queue' = video_queue
          /\ \A k \in 1..Len(video_queue') :
               video_queue'[k].sequence # chunk_sequence]_vars
  /\ [](/\ \A i \in 1..(Len(Delivered) - 1) : Delivered[i] < Delivered[i + 1]
        /\ Len(Delivered) = chunk_sequence - stats.queue_drops
        /\ \A i \in 1..Len(Delivered) : i <= QueueMaxSize => Delivered[i] = i - 1)

\* A consumer that resumed after an overrun has received the whole of the
\* old queue and then a chunk produced after the dropped one.
C37_Witness ==
  /\ stats.queue_drops = 1
  /\ Len(consumed) = QueueMaxSize + 1
  /\ \A i \in 1..QueueMaxSize : consumed[i] = i - 1
  /\ consumed[QueueMaxSize + 1] = QueueMaxSize + 1

(***************************************************************************)
(* AdkExternalCompaction                                                   *)
(***************************************************************************)
\* C38: run_async starts the runner again only on a compaction trigger: when
\* a run of the runner ends without should_compact having said yes, run_async
\* is over, with no compaction made and no further run started.
C38_RestartOnlyOnTrigger ==
  [][/\ (AdkExhausted /\ ~adk.triggered) => adk'.pc = "done"
     /\ (adk.pc = "closing" /\ ~adk.triggered) =>
          /\ adk'.compactions = adk.compactions
          /\ adk'.runs = adk.runs]_vars

\* The video handlers that were counted and have not begun their cleanup.
HandlersCounted == {h \in Callers : hpc[h] \in {"connecting", "streaming"}}

\* A handler whose cleanup is suspended inside stop_streaming.
Stopping(h) == hpc[h] = "cleanup" /\ pc[h] # "idle"

\* The video handlers between their entry (for /ws/video, once accepted)
\* and the end of their cleanup.
HandlersInside == HandlersCounted \cup {h \in Callers : Stopping(h)}

\* A step in which stop_streaming takes streaming down.
StopBegins == streaming /\ ~streaming'

\* C39: under any interleaving of video clients coming and going,
\* video_streaming_clients equals the number of video handlers between
\* their increment and the start of their finally block (a handler
\* suspended in the stop_streaming of its cleanup is no longer counted), it
\* is never negative, and stop_streaming is begun only by a step that leaves
\* no video client counted.
C39_CountsUntilCleanupBegins ==
  /\ [](/\ video_streaming_clients = Cardinality(HandlersCounted)
        /\ video_streaming_clients >= 0)
  /\ [][StopBegins => (HandlersCounted' = {} /\ video_streaming_clients' = 0)]_vars

\* A handler is suspended in the stop_streaming of its cleanup while another
\* client has come and is counted.
C39_Witness ==
  \E h, other \in Callers :
    /\ Stopping(h)
    /\ hpc[other] = "streaming"
    /\ video_streaming_clients = 1

\* C39 as stated: the counter equals the number of handlers between their
\* entry and the end of their cleanup, is never negative, and a departing
\* client stops streaming only when no other client remains counted.
C39_CountsUntilCleanupEnds ==
  /\ [](/\ video_streaming_clients = Cardinality(HandlersInside)
        /\ video_streaming_clients >= 0)
  /\ [][StopBegins => (HandlersCounted' = {} /\ video_streaming_clients' = 0)]_vars
====
